---- MODULE Spec2Model ----
(***************************************************************************)
(* GitHub-Notion-Sync-Plus: the reconciliation pass of SyncManager         *)
(* (determineSyncOperations / executeSyncOperations) over the Notion       *)
(* database ("Ledger") and the GitHub issues ("Tracker").                  *)
(***************************************************************************)
EXTENDS Integers, Sequences, FiniteSets, TLC

VARIABLES
    notion,      \* the Ledger: sequence of items as NotionClient formats them
    github,      \* the Tracker: sequence of raw issues, index = issue number
    pulls,       \* the Tracker: sequence of raw pull requests
    comments,    \* the Tracker: number of comments posted on each issue
    clock,       \* time of the next write to either store
    pc,          \* position of performFullSync: "idle", "exec", "done"
    fetched,     \* allItems, githubIssues and githubPRs of performFullSync
    operations,  \* syncOperations, the planned list
    index,       \* the next operation the for-loop of executeSyncOperations starts
    calls,       \* external calls in flight
    results,     \* the results object of executeSyncOperations
    attempts,    \* how many times executeOperation was entered per operation
    trace,       \* the external calls issued so far, in order
    outage,      \* the fetches of the pass that failed
    dry,         \* what dryRun reported
    later,       \* the pass that the next tick of the interval timer starts
    branches,    \* the Tracker: the branches, by url
    hook         \* the invocation of createBranchFromWebhook

vars == <<notion, github, pulls, comments, clock, pc, fetched, operations, index,
          calls, results, attempts, trace, outage, dry, later, branches, hook>>

\* what the pass of performFullSync leaves alone
aside == <<dry, later, branches, hook>>

----------------------------------------------------------------------------
(* Bounds of the model *)

\* timestamps of the initial snapshot range over 1..MaxTime (0: missing)
MaxTime == 2

\* the pull requests of one item number at most MaxPulls
MaxPulls == 3

----------------------------------------------------------------------------
(* Values *)

\* null where the other values are strings (an id, a url)
Null == "null"

\* null where the other values are objects (the source or target of an operation)
NullObj == [isNull |-> TRUE]

CbugIds == {"CBUG-1", "CBUG-2"}

TskIds == {"TSK-1"}

KnownStatuses == {"Reported", "Blocked", "In Progress", "In Review", "Rejected", "Fixed"}

\* the names of Object.prototype that a lookup in an object literal finds
InheritedKeys == {"constructor"}

\* what such a lookup yields: a function, never a state
InheritedValue == "function Object() { [native code] }"

Statuses == KnownStatuses \cup {"", "Triage"} \cup InheritedKeys

ModuleMapping == [Application |-> "app-repo", Firmware |-> "fw-repo"]

Repositories == <<"app-repo", "fw-repo">>

IssueUrl(n) == "https://github.com/issues/" \o ToString(n)

PullUrl(n) == "https://github.com/pull/" \o ToString(n)

\* obj[key] || dflt for a numeric property: a key the object does not have
\* reads as undefined, and undefined and 0 are falsy
GetOr(obj, key, dflt) ==
    IF key \in DOMAIN obj /\ obj[key] # 0 THEN obj[key] ELSE dflt

\* the truthiness of a string-or-null value ('' is what the Notion extractors
\* return for a missing property)
Truthy(x) == x \notin {"", Null}

----------------------------------------------------------------------------
(* DataMapper *)

mapNotionStatusToGitHubState(notionStatus) ==
    CASE notionStatus \in {"Reported", "Blocked", "In Progress", "In Review"} -> "open"
      [] notionStatus \in {"Rejected", "Fixed"} -> "closed"
      [] notionStatus \in InheritedKeys -> InheritedValue
      [] OTHER -> "open"

\* the mapping that turns every closed issue into Fixed
mapGitHubStateToNotionStatusAlwaysFixed(githubState, currentNotionStatus) ==
    IF githubState = "closed" THEN "Fixed"
    ELSE IF currentNotionStatus \in {"Fixed", "Rejected"} THEN "Reported"
         ELSE currentNotionStatus

mapGitHubStateToNotionStatus(githubState, currentNotionStatus) ==
    IF githubState = "closed"
    THEN IF currentNotionStatus \in {"Fixed", "Rejected"}
         THEN currentNotionStatus
         ELSE "Fixed"
    ELSE IF githubState = "open" /\ currentNotionStatus \in {"Fixed", "Rejected"}
         THEN "Reported"
         ELSE currentNotionStatus

\* a title is modelled by its shape: "colon" is "<id>: <rest>", "bracket" is
\* "[<tag>]/<id> <rest>", "hyphen" is "<id>-<rest>", "plain" has no id
extractBugIdFromTitle(title) ==
    IF title.form = "colon" /\ title.id \in (CbugIds \cup TskIds) /\ title.rest # ""
    THEN title.id
    ELSE IF title.form = "bracket" /\ title.id \in CbugIds /\ title.rest # ""
         THEN title.id
         ELSE Null

validateBugForSync(bug) ==
    Truthy(bug.id) /\ Truthy(bug.title) /\ Truthy(bug.module) /\ Truthy(bug.type)

createSyncOperation(action, source, target, reason) ==
    [action |-> action, source |-> source, target |-> target, reason |-> reason]

\* PR helpers of DataMapper
mapGitHubPRStateToNotionStatus(pr) ==
    IF pr.merged THEN "Merged"
    ELSE IF pr.state = "open" THEN "Open" ELSE "Closed"

needsPRStatusUpdate(currentStatus, pr) ==
    currentStatus # mapGitHubPRStateToNotionStatus(pr)

needsPRLinkUpdate(currentLink, pr) ==
    currentLink # pr.githubUrl

createPRSyncOperation(item, pr, reason) ==
    createSyncOperation("update_notion_pr", item, pr, reason)

----------------------------------------------------------------------------
(* GitHubClient: what a fetch returns *)

formatIssueData(issue, repo) ==
    [githubId   |-> issue.number,
     githubUrl  |-> issue.html_url,
     repository |-> repo,
     title      |-> issue.title,
     body       |-> issue.body,
     state      |-> issue.state,
     updatedAt  |-> issue.updated_at]

formatPullRequestData(pr, repo) ==
    [githubId   |-> pr.number,
     githubUrl  |-> pr.html_url,
     repository |-> repo,
     state      |-> pr.state,
     merged     |-> pr.merged,
     updatedAt  |-> pr.updated_at,
     bugId      |-> IF pr.head_id \in (CbugIds \cup TskIds) THEN pr.head_id ELSE Null]

MapSeq(seq, F(_)) == [i \in 1..Len(seq) |-> F(seq[i])]

RECURSIVE Flatten(_)
\* allIssues.push(...issues) over a sequence of arrays
Flatten(seqs) ==
    IF seqs = <<>> THEN <<>> ELSE Head(seqs) \o Flatten(Tail(seqs))

fetchSyncedIssues(store, repo) ==
    LET Synced(issue) == issue.repo = repo /\ "notion-sync" \in issue.labels
        Fmt(issue) == formatIssueData(issue, repo)
    IN MapSeq(SelectSeq(store, Synced), Fmt)

fetchAllSyncedIssues(store, repos) ==
    Flatten([i \in 1..Len(repos) |-> fetchSyncedIssues(store, repos[i])])

fetchPullRequests(store, repo) ==
    LET InRepo(pr) == pr.repo = repo
        Fmt(pr) == formatPullRequestData(pr, repo)
    IN MapSeq(SelectSeq(store, InRepo), Fmt)

fetchAllPullRequests(store, repos) ==
    Flatten([i \in 1..Len(repos) |-> fetchPullRequests(store, repos[i])])

----------------------------------------------------------------------------
(* Issue bodies: a body is a sequence of paragraphs (separated by a blank    *)
(* line), a paragraph a sequence of lines, a line its text and the url it    *)
(* carries ("" for none). The empty body is null or ''.                      *)

Line(text, url) == [text |-> text, url |-> url]

DevelopmentHeading == Line("## Development", "")

BranchLine(url) == Line("**Branch:**", url)

FooterRule == Line("---", "")

FooterText == Line("*This issue was automatically created from Notion", "")

\* haystack.includes(needle) for two urls: b1 is a proper prefix of b12
UrlIncludes(haystack, needle) ==
    \/ haystack = needle
    \/ /\ haystack = "https://github.com/tree/b12"
       /\ needle = "https://github.com/tree/b1"

\* body.includes(url)
BodyIncludesUrl(body, url) ==
    \E p \in 1..Len(body) : \E l \in 1..Len(body[p]) :
        body[p][l].url # "" /\ UrlIncludes(body[p][l].url, url)

----------------------------------------------------------------------------
(* JavaScript Maps: entries <<key, value>> in insertion order *)

MapHas(map, key) == \E i \in 1..Len(map) : map[i][1] = key

MapSet(map, key, value) ==
    IF MapHas(map, key)
    THEN [i \in 1..Len(map) |-> IF map[i][1] = key THEN <<key, value>> ELSE map[i]]
    ELSE Append(map, <<key, value>>)

MapGet(map, key, dflt) ==
    IF MapHas(map, key)
    THEN map[CHOOSE i \in 1..Len(map) : map[i][1] = key][2]
    ELSE dflt

----------------------------------------------------------------------------
(* SyncManager: planning *)

RECURSIVE buildBugMap(_, _, _)
buildBugMap(items, i, map) ==
    IF i > Len(items) THEN map
    ELSE buildBugMap(items, i + 1,
            IF Truthy(items[i].id) THEN MapSet(map, items[i].id, items[i]) ELSE map)

RECURSIVE buildIssueMap(_, _, _)
buildIssueMap(issues, i, map) ==
    IF i > Len(issues) THEN map
    ELSE LET bugId == extractBugIdFromTitle(issues[i].title)
         IN buildIssueMap(issues, i + 1,
                IF Truthy(bugId) THEN MapSet(map, bugId, issues[i]) ELSE map)

RECURSIVE buildPrMap(_, _, _)
buildPrMap(prs, i, map) ==
    IF i > Len(prs) THEN map
    ELSE LET bugId == prs[i].bugId
         IN buildPrMap(prs, i + 1,
                IF Truthy(bugId)
                THEN MapSet(map, bugId, Append(MapGet(map, bugId, <<>>), prs[i]))
                ELSE map)

createMappings(items, issues, prs) ==
    [bugMap   |-> buildBugMap(items, 1, <<>>),
     issueMap |-> buildIssueMap(issues, 1, <<>>),
     prMap    |-> buildPrMap(prs, 1, <<>>)]

getStatePriority(pr) ==
    IF pr.state = "open" THEN 3
    ELSE IF pr.merged THEN 2 ELSE 1

\* the comparator that looks at the time of the last update only
comparePRsByRecency(a, b) == b.updatedAt - a.updatedAt

\* the comparator of the sort: negative when a goes before b
comparePRs(a, b) ==
    LET priorityDiff == getStatePriority(b) - getStatePriority(a)
    IN IF priorityDiff # 0 THEN priorityDiff ELSE b.updatedAt - a.updatedAt

RECURSIVE insertSorted(_, _)
\* Array.prototype.sort is stable: x goes after the elements it does not precede
insertSorted(sorted, x) ==
    IF sorted = <<>> THEN <<x>>
    ELSE IF comparePRs(x, Head(sorted)) < 0
         THEN <<x>> \o sorted
         ELSE <<Head(sorted)>> \o insertSorted(Tail(sorted), x)

RECURSIVE sortPRs(_, _, _)
sortPRs(prs, i, sorted) ==
    IF i > Len(prs) THEN sorted
    ELSE sortPRs(prs, i + 1, insertSorted(sorted, prs[i]))

getMostRelevantPR(prs) ==
    IF prs = <<>> THEN NullObj ELSE sortPRs(prs, 1, <<>>)[1]

\* determineUpdateOperations without the guard against conflicting updates:
\* each direction that needs an update gets its operation
determineUpdateOperationsUnguarded(bug, issue) ==
    LET expectedGitHubState == mapNotionStatusToGitHubState(bug.status)
        expectedNotionStatus == mapGitHubStateToNotionStatus(issue.state, bug.status)
    IN (IF issue.state # expectedGitHubState
        THEN <<createSyncOperation("update_github_state", bug, issue,
                 <<"Notion status", bug.status, "requires GitHub state",
                   expectedGitHubState>>)>>
        ELSE <<>>)
       \o
       (IF bug.status # expectedNotionStatus
        THEN <<createSyncOperation("update_notion_status", bug, issue,
                 <<"GitHub state", issue.state, "requires Notion status",
                   expectedNotionStatus>>)>>
        ELSE <<>>)

\* determineUpdateOperations with the branches of the timestamp test swapped
determineUpdateOperationsSwapped(bug, issue) ==
    LET expectedGitHubState == mapNotionStatusToGitHubState(bug.status)
        githubNeedsUpdate == issue.state # expectedGitHubState
        expectedNotionStatus == mapGitHubStateToNotionStatus(issue.state, bug.status)
        notionNeedsUpdate == bug.status # expectedNotionStatus
        notionUpdated == GetOr(bug, "lastModified", 0)
        githubUpdated == GetOr(issue, "updated_at", 0)
    IN IF githubNeedsUpdate /\ notionNeedsUpdate
       THEN IF notionUpdated < githubUpdated
            THEN <<createSyncOperation("update_github_state", bug, issue,
                     <<"Notion status", bug.status,
                       "updated more recently, requires GitHub state",
                       expectedGitHubState>>)>>
            ELSE <<createSyncOperation("update_notion_status", bug, issue,
                     <<"GitHub state", issue.state,
                       "updated more recently, requires Notion status",
                       expectedNotionStatus>>)>>
       ELSE <<>>

determineUpdateOperations(bug, issue) ==
    LET expectedGitHubState == mapNotionStatusToGitHubState(bug.status)
        githubNeedsUpdate == issue.state # expectedGitHubState
        expectedNotionStatus == mapGitHubStateToNotionStatus(issue.state, bug.status)
        notionNeedsUpdate == bug.status # expectedNotionStatus
        notionUpdated == GetOr(bug, "lastModified", 0)
        githubUpdated == GetOr(issue, "updated_at", 0)
    IN IF githubNeedsUpdate /\ notionNeedsUpdate
       THEN IF notionUpdated >= githubUpdated
            THEN <<createSyncOperation("update_github_state", bug, issue,
                     <<"Notion status", bug.status,
                       "updated more recently, requires GitHub state",
                       expectedGitHubState>>)>>
            ELSE <<createSyncOperation("update_notion_status", bug, issue,
                     <<"GitHub state", issue.state,
                       "updated more recently, requires Notion status",
                       expectedNotionStatus>>)>>
       ELSE IF githubNeedsUpdate
            THEN <<createSyncOperation("update_github_state", bug, issue,
                     <<"Notion status", bug.status, "requires GitHub state",
                       expectedGitHubState>>)>>
            ELSE IF notionNeedsUpdate
                 THEN <<createSyncOperation("update_notion_status", bug, issue,
                          <<"GitHub state", issue.state, "requires Notion status",
                            expectedNotionStatus>>)>>
                 ELSE <<>>

issueHasBranchLink(issue, branchUrl) ==
    IF issue.body = <<>> \/ ~Truthy(branchUrl) THEN FALSE
    ELSE BodyIncludesUrl(issue.body, branchUrl)

\* determinePRSyncOperations without the test of the branch url
determinePRSyncOperationsAnyBranch(item, prs) ==
    LET mostRelevantPR == getMostRelevantPR(prs)
    IN IF mostRelevantPR # NullObj
       THEN (IF needsPRStatusUpdate(item.pullRequestStatus, mostRelevantPR)
             THEN <<createPRSyncOperation(item, mostRelevantPR,
                      <<"PR status should be",
                        mapGitHubPRStateToNotionStatus(mostRelevantPR),
                        "but is", item.pullRequestStatus>>)>>
             ELSE <<>>)
            \o
            (IF needsPRLinkUpdate(item.pullRequestLink, mostRelevantPR)
             THEN <<createSyncOperation("update_notion_pr_link", item, mostRelevantPR,
                      <<"PR link should be", mostRelevantPR.githubUrl,
                        "but is", item.pullRequestLink>>)>>
             ELSE <<>>)
       ELSE IF Truthy(item.pullRequestStatus) /\ item.pullRequestStatus # "None"
            THEN <<createSyncOperation("clear_notion_pr", item, NullObj,
                     <<"No pull request found, clearing PR status">>)>>
            ELSE <<>>

determinePRSyncOperations(item, prs) ==
    LET mostRelevantPR == getMostRelevantPR(prs)
    IN IF mostRelevantPR # NullObj
       THEN (IF needsPRStatusUpdate(item.pullRequestStatus, mostRelevantPR)
             THEN <<createPRSyncOperation(item, mostRelevantPR,
                      <<"PR status should be",
                        mapGitHubPRStateToNotionStatus(mostRelevantPR),
                        "but is", item.pullRequestStatus>>)>>
             ELSE <<>>)
            \o
            (IF needsPRLinkUpdate(item.pullRequestLink, mostRelevantPR)
             THEN <<createSyncOperation("update_notion_pr_link", item, mostRelevantPR,
                      <<"PR link should be", mostRelevantPR.githubUrl,
                        "but is", item.pullRequestLink>>)>>
             ELSE <<>>)
       ELSE IF Truthy(item.pullRequestStatus) /\ item.pullRequestStatus # "None"
               /\ ~Truthy(item.branchUrl)
            THEN <<createSyncOperation("clear_notion_pr", item, NullObj,
                     <<"No pull request found, clearing PR status">>)>>
            ELSE <<>>

\* the branch for an item without an issue that leaves a linked item alone
missingIssueOperationsUnlessLinked(item) ==
    IF Truthy(item.issueLink) THEN <<>>
    ELSE <<createSyncOperation("create", item, NullObj,
             <<"exists in Notion but not in GitHub">>)>>

\* the branch of the loop body for an item without an issue
missingIssueOperations(item) ==
    <<createSyncOperation("create", item, NullObj,
        <<"exists in Notion but not in GitHub">>)>>

\* the link check that only fills in an empty link
linkOperationsIfEmpty(item, correspondingIssue) ==
    IF ~Truthy(item.issueLink)
    THEN <<createSyncOperation("update_notion_link", item, correspondingIssue,
             <<"Notion item missing or has incorrect GitHub issue link">>)>>
    ELSE <<>>

\* the link check of the loop body
linkOperations(item, correspondingIssue) ==
    IF ~Truthy(item.issueLink) \/ item.issueLink # correspondingIssue.githubUrl
    THEN <<createSyncOperation("update_notion_link", item, correspondingIssue,
             <<"Notion item missing or has incorrect GitHub issue link">>)>>
    ELSE <<>>

\* the branch link check of the loop body
branchOperations(item, correspondingIssue) ==
    IF Truthy(item.branchUrl) /\ ~issueHasBranchLink(correspondingIssue, item.branchUrl)
    THEN <<createSyncOperation("update_github_branch", item, correspondingIssue,
             <<"GitHub issue missing branch link from Notion">>)>>
    ELSE <<>>

\* the loop body for a validated item: issue sync, then pull request sync
bugOperations(itemId, item, issueMap, prMap) ==
    LET correspondingIssue == MapGet(issueMap, itemId, NullObj)
        correspondingPRs == MapGet(prMap, itemId, <<>>)
    IN (IF correspondingIssue = NullObj
        THEN missingIssueOperations(item)
        ELSE determineUpdateOperations(item, correspondingIssue)
             \o linkOperations(item, correspondingIssue)
             \o branchOperations(item, correspondingIssue))
       \o determinePRSyncOperations(item, correspondingPRs)

\* the loop body without the early exit of tasks
itemOperationsTasksAsBugs(itemId, item, issueMap, prMap) ==
    IF ~validateBugForSync(item)
    THEN <<>>
    ELSE bugOperations(itemId, item, issueMap, prMap)

\* the operations of one iteration of the loop over bugMap
itemOperations(itemId, item, issueMap, prMap) ==
    IF item.itemType = "task"
    THEN determinePRSyncOperations(item, MapGet(prMap, itemId, <<>>))
    ELSE IF ~validateBugForSync(item)
         THEN <<>>
         ELSE bugOperations(itemId, item, issueMap, prMap)

RECURSIVE itemLoop(_, _, _, _)
itemLoop(bugMap, issueMap, prMap, i) ==
    IF i > Len(bugMap) THEN <<>>
    ELSE itemOperations(bugMap[i][1], bugMap[i][2], issueMap, prMap)
         \o itemLoop(bugMap, issueMap, prMap, i + 1)

RECURSIVE orphanLoopAll(_, _, _)
\* the loop over issueMap that asks to delete every issue
orphanLoopAll(bugMap, issueMap, i) ==
    IF i > Len(issueMap) THEN <<>>
    ELSE <<createSyncOperation("delete", NullObj, issueMap[i][2],
             <<"Issue exists in GitHub but corresponding item was deleted from Notion">>)>>
         \o orphanLoopAll(bugMap, issueMap, i + 1)

RECURSIVE orphanLoop(_, _, _)
orphanLoop(bugMap, issueMap, i) ==
    IF i > Len(issueMap) THEN <<>>
    ELSE (IF ~MapHas(bugMap, issueMap[i][1])
          THEN <<createSyncOperation("delete", NullObj, issueMap[i][2],
                   <<"Issue exists in GitHub but corresponding item was deleted from Notion">>)>>
          ELSE <<>>)
         \o orphanLoop(bugMap, issueMap, i + 1)

\* the two loops in the other order
determineSyncOperationsOrphansFirst(bugMap, issueMap, prMap) ==
    orphanLoop(bugMap, issueMap, 1) \o itemLoop(bugMap, issueMap, prMap, 1)

determineSyncOperations(bugMap, issueMap, prMap) ==
    itemLoop(bugMap, issueMap, prMap, 1) \o orphanLoop(bugMap, issueMap, 1)

\* step 1 of performFullSync: the snapshot of the two stores
fetchAll(ledger, issues, prs) ==
    [allItems     |-> ledger,
     githubIssues |-> fetchAllSyncedIssues(issues, Repositories),
     githubPRs    |-> fetchAllPullRequests(prs, Repositories)]

\* the fetches of step 1: the items, and the issues and the pull requests
\* of each repository
Fetches ==
    {[kind |-> "items", repo |-> ""]}
    \cup {[kind |-> k, repo |-> Repositories[i]] :
             k \in {"issues", "pulls"}, i \in 1..Len(Repositories)}

\* fetchAllSyncedIssues when the fetches of `down` throw: the catch inside
\* the loop skips the repository
fetchAllSyncedIssuesDuring(store, repos, down) ==
    Flatten([i \in 1..Len(repos) |->
                IF [kind |-> "issues", repo |-> repos[i]] \in down
                THEN <<>> ELSE fetchSyncedIssues(store, repos[i])])

\* fetchAllPullRequests when the fetches of `down` throw
fetchAllPullRequestsDuring(store, repos, down) ==
    Flatten([i \in 1..Len(repos) |->
                IF [kind |-> "pulls", repo |-> repos[i]] \in down
                THEN <<>> ELSE fetchPullRequests(store, repos[i])])

\* step 1 of performFullSync when the fetches of `down` throw and the fetch
\* of the items does not
fetchAllDuring(ledger, issues, prs, down) ==
    [allItems     |-> ledger,
     githubIssues |-> fetchAllSyncedIssuesDuring(issues, Repositories, down),
     githubPRs    |-> fetchAllPullRequestsDuring(prs, Repositories, down)]

\* steps 2 and 3 of performFullSync: the maps, then the operations
plan(snapshot) ==
    LET maps == createMappings(snapshot.allItems, snapshot.githubIssues,
                               snapshot.githubPRs)
    IN determineSyncOperations(maps.bugMap, maps.issueMap, maps.prMap)

----------------------------------------------------------------------------
(* GitHubClient and NotionClient: what a successful call writes *)

\* the body without the Development section
formatIssueBodyWithoutBranch(bug, branchUrl) ==
    (IF Truthy(bug.description)
     THEN <<(<<Line("## Description", ""), Line(bug.description, "")>>)>> ELSE <<>>)
    \o <<(<<FooterRule, FooterText>>)>>

formatIssueBody(bug, branchUrl) ==
    (IF Truthy(bug.description)
     THEN <<(<<Line("## Description", ""), Line(bug.description, "")>>)>> ELSE <<>>)
    \o
    (IF Truthy(bug.stepsToReproduce)
     THEN <<(<<Line("## Steps to Reproduce", ""), Line(bug.stepsToReproduce, "")>>)>>
     ELSE <<>>)
    \o
    (IF Truthy(branchUrl)
     THEN <<(<<DevelopmentHeading, BranchLine(branchUrl)>>)>> ELSE <<>>)
    \o
    <<(<<FooterRule, FooterText>>)>>

determineLabels(bug) ==
    {"bug", "notion-sync"}
    \cup (IF Truthy(bug.type) THEN {bug.type} ELSE {})
    \cup (CASE bug.status = "Blocked" -> {"blocked"}
            [] bug.status = "In Progress" -> {"in-progress"}
            [] bug.status = "In Review" -> {"in-review"}
            [] OTHER -> {})

\* the issue that octokit.rest.issues.create adds to the repository
createIssue(issues, repo, bug, branchUrl, now) ==
    Append(issues,
        [number     |-> Len(issues) + 1,
         html_url   |-> IssueUrl(Len(issues) + 1),
         repo       |-> repo,
         title      |-> [form |-> "colon", id |-> bug.id, rest |-> bug.title],
         body       |-> formatIssueBody(bug,
                            IF Truthy(branchUrl) THEN branchUrl ELSE bug.branchUrl),
         state      |-> "open",
         labels     |-> determineLabels(bug),
         updated_at |-> now,
         locked     |-> FALSE])

\* issues.update({..., state}): the request body is JSON, which leaves out a
\* property whose value is not a string, so only open and closed are written
updateIssueState(issues, issueNumber, state, now) ==
    IF state \in {"open", "closed"}
    THEN [issues EXCEPT ![issueNumber].state = state, ![issueNumber].updated_at = now]
    ELSE issues

updateIssueBody(issues, issueNumber, body, now) ==
    [issues EXCEPT ![issueNumber].body = body, ![issueNumber].updated_at = now]

lockIssue(issues, issueNumber) ==
    [issues EXCEPT ![issueNumber].locked = TRUE]

\* pages.update with the properties that updateBugProperties and
\* updateTaskProperties build: a falsy value leaves its property out
updateProperties(ledger, pageId, updates, now) ==
    LET page == ledger[pageId]
        Pick(key, old) ==
            IF key \in DOMAIN updates /\ Truthy(updates[key]) THEN updates[key] ELSE old
    IN [ledger EXCEPT ![pageId] =
            [page EXCEPT !.status = Pick("status", page.status),
                         !.issueLink = Pick("issueUrl", page.issueLink),
                         !.branchUrl = Pick("branchUrl", page.branchUrl),
                         !.pullRequestStatus =
                             Pick("pullRequestStatus", page.pullRequestStatus),
                         !.pullRequestLink =
                             Pick("pullRequestLink", page.pullRequestLink),
                         !.lastModified = now]]

updateBugStatus(ledger, pageId, status, now) ==
    [ledger EXCEPT ![pageId].status = status, ![pageId].lastModified = now]

updateBugIssueLink(ledger, pageId, issueUrl, now) ==
    [ledger EXCEPT ![pageId].issueLink = issueUrl, ![pageId].lastModified = now]

updateBugPullRequestLink(ledger, pageId, prUrl, now) ==
    [ledger EXCEPT ![pageId].pullRequestLink = prUrl, ![pageId].lastModified = now]

----------------------------------------------------------------------------
(* SyncManager: the body that updateGitHubIssueBranchLink sends *)

\* the position <<paragraph, line>> of the first line whose text is `text`
\* and, when `next` is not "", whose successor in the paragraph is `next`
FirstLine(body, text, next) ==
    LET Here(p, l) == /\ body[p][l].text = text
                      /\ next # "" => /\ l < Len(body[p])
                                      /\ body[p][l + 1].text = next
        hits == UNION {{<<p, l>> : l \in {k \in 1..Len(body[p]) : Here(p, k)}} :
                          p \in 1..Len(body)}
    IN IF hits = {} THEN <<0, 0>>
       ELSE CHOOSE pl \in hits : \A o \in hits :
                pl[1] < o[1] \/ (pl[1] = o[1] /\ pl[2] <= o[2])

\* the lines that /(## Development\n)(.*?)(\n\n|$)/s captures after the
\* heading at <<p, l>>: the rest of the paragraph, or the whole next
\* paragraph when the heading ends its own
developmentContent(body, p, l) ==
    IF l < Len(body[p]) THEN SubSeq(body[p], l + 1, Len(body[p]))
    ELSE body[p + 1]

\* a body is its paragraphs (the parts between blank lines), each its lines;
\* the empty body has none, and a body that ends in a blank line has an
\* empty last paragraph
branchLinkBody(body, branchUrl) ==
    LET dev == FirstLine(body, DevelopmentHeading.text, "")
        foot == FirstLine(body, FooterRule.text, FooterText.text)
        section == <<DevelopmentHeading, BranchLine(branchUrl)>>
    IN IF dev # <<0, 0>>
       THEN LET p == dev[1]
                \* the heading must be followed by a newline to match
                matches == dev[2] < Len(body[p]) \/ p < Len(body)
                q == IF dev[2] < Len(body[p]) THEN p ELSE p + 1
            IN IF ~matches THEN body
               ELSE LET content == developmentContent(body, p, dev[2])
                    IN IF \E l \in 1..Len(content) :
                             /\ content[l].url # ""
                             /\ UrlIncludes(content[l].url, branchUrl)
                       THEN body
                       ELSE SubSeq(body, 1, p - 1)
                            \o <<SubSeq(body[p], 1, dev[2]) \o content
                                  \o <<BranchLine(branchUrl)>> >>
                            \o (IF q = Len(body) THEN << <<>> >>
                                ELSE SubSeq(body, q + 1, Len(body)))
       ELSE IF foot # <<0, 0>>
            THEN LET p == foot[1]
                     before == SubSeq(body[p], 1, foot[2] - 1)
                     after == SubSeq(body[p], foot[2], Len(body[p]))
                 IN SubSeq(body, 1, p - 1)
                    \o <<before \o section, after>>
                    \o SubSeq(body, p + 1, Len(body))
            ELSE (IF body = <<>> THEN << <<>> >> ELSE body) \o <<section>>

----------------------------------------------------------------------------
(* SyncManager: execution. A handler runs up to its next await: `last` is    *)
(* the call that just settled ("start" on entry), `ok` whether it returned,  *)
(* `resp` what it returned. The result is the next call, a return or a throw *)

Call(name, arg) == [kind |-> "call", name |-> name, arg |-> arg]

Return == [kind |-> "return"]

Throw == [kind |-> "throw"]

\* createGitHubIssue that falls back to the first repository when the
\* module has no mapping
createGitHubIssueAnyModule(bug, last, ok, resp) ==
    CASE last = "start" ->
            Call("createIssue",
                 [repo |-> IF bug.module \in DOMAIN ModuleMapping
                           THEN ModuleMapping[bug.module] ELSE Repositories[1]])
      [] last = "createIssue" ->
            IF ok THEN Call("updateBugIssueLink",
                            [pageId |-> bug.notionId, url |-> resp.githubUrl])
            ELSE Throw
      [] OTHER -> Return

createGitHubIssue(bug, last, ok, resp) ==
    CASE last = "start" ->
            IF bug.module \notin DOMAIN ModuleMapping
            THEN Throw
            ELSE Call("createIssue", [repo |-> ModuleMapping[bug.module]])
      [] last = "createIssue" ->
            IF ok THEN Call("updateBugIssueLink",
                            [pageId |-> bug.notionId, url |-> resp.githubUrl])
            ELSE Throw
      [] OTHER -> Return

updateGitHubIssueState(bug, issue, last, ok) ==
    CASE last = "start" ->
            Call("updateIssueState",
                 [issue |-> issue.githubId,
                  state |-> mapNotionStatusToGitHubState(bug.status)])
      [] last = "updateIssueState" ->
            IF ok THEN Call("addComment", [issue |-> issue.githubId]) ELSE Throw
      [] OTHER -> IF ok THEN Return ELSE Throw

updateNotionBugStatus(item, issue, last, ok) ==
    CASE last = "start" ->
            Call(IF item.itemType = "task" THEN "updateTaskStatus" ELSE "updateBugStatus",
                 [pageId |-> item.notionId,
                  status |-> mapGitHubStateToNotionStatus(issue.state, item.status)])
      [] OTHER -> IF ok THEN Return ELSE Throw

updateNotionBugLink(item, issue, last, ok) ==
    CASE last = "start" ->
            Call(IF item.itemType = "task" THEN "updateTaskIssueLink"
                 ELSE "updateBugIssueLink",
                 [pageId |-> item.notionId, url |-> issue.githubUrl])
      [] OTHER -> IF ok THEN Return ELSE Throw

updateGitHubIssueBranchLink(bug, issue, last, ok) ==
    CASE last = "start" ->
            Call("updateIssueBody",
                 [issue |-> issue.githubId,
                  body |-> branchLinkBody(issue.body, bug.branchUrl)])
      [] OTHER -> IF ok THEN Return ELSE Throw

\* deleteIssue of GitHubClient is two calls, issues.update and issues.lock
deleteGitHubIssue(issue, last, ok) ==
    CASE last = "start" -> Call("addComment", [issue |-> issue.githubId])
      [] last = "addComment" ->
            IF ok THEN Call("deleteIssue.update", [issue |-> issue.githubId])
            ELSE Return
      [] last = "deleteIssue.update" ->
            IF ok THEN Call("deleteIssue.lock", [issue |-> issue.githubId])
            ELSE Return
      [] OTHER -> Return

updateNotionPRProperties(item, pr, last, ok) ==
    CASE last = "start" ->
            Call(IF item.itemType = "task" THEN "updateTaskProperties"
                 ELSE "updateBugProperties",
                 [pageId |-> item.notionId,
                  updates |-> [pullRequestStatus |-> mapGitHubPRStateToNotionStatus(pr),
                               pullRequestLink |-> pr.githubUrl]])
      [] OTHER -> IF ok THEN Return ELSE Throw

updateNotionPRLink(item, pr, last, ok) ==
    CASE last = "start" ->
            IF item.itemType = "task"
            THEN Call("updateTaskProperties",
                      [pageId |-> item.notionId,
                       updates |-> [pullRequestLink |-> pr.githubUrl]])
            ELSE Call("updateBugPullRequestLink",
                      [pageId |-> item.notionId, url |-> pr.githubUrl])
      [] OTHER -> IF ok THEN Return ELSE Throw

clearNotionPRProperties(item, last, ok) ==
    CASE last = "start" ->
            Call(IF item.itemType = "task" THEN "updateTaskProperties"
                 ELSE "updateBugProperties",
                 [pageId |-> item.notionId,
                  updates |-> [pullRequestStatus |-> "None",
                               pullRequestLink |-> Null]])
      [] OTHER -> IF ok THEN Return ELSE Throw

executeOperation(operation, last, ok, resp) ==
    CASE operation.action = "create" ->
            createGitHubIssue(operation.source, last, ok, resp)
      [] operation.action = "update_github_state" ->
            updateGitHubIssueState(operation.source, operation.target, last, ok)
      [] operation.action = "update_notion_status" ->
            updateNotionBugStatus(operation.source, operation.target, last, ok)
      [] operation.action = "update_notion_link" ->
            updateNotionBugLink(operation.source, operation.target, last, ok)
      [] operation.action = "update_github_branch" ->
            updateGitHubIssueBranchLink(operation.source, operation.target, last, ok)
      [] operation.action = "delete" ->
            deleteGitHubIssue(operation.target, last, ok)
      [] operation.action = "update_notion_pr" ->
            updateNotionPRProperties(operation.source, operation.target, last, ok)
      [] operation.action = "update_notion_pr_link" ->
            updateNotionPRLink(operation.source, operation.target, last, ok)
      [] operation.action = "clear_notion_pr" ->
            clearNotionPRProperties(operation.source, last, ok)
      [] OTHER -> Throw

\* the try branch of the loop body of executeSyncOperations
recordSuccess(res, operation) ==
    LET counted == [res EXCEPT !.operations =
                        Append(@, [operation |-> operation, success |-> TRUE])]
    IN CASE operation.action = "create" ->
                [counted EXCEPT !.created = @ + 1]
         [] operation.action \in {"update_github_state", "update_notion_status",
                                  "update_notion_pr", "update_notion_pr_link",
                                  "clear_notion_pr"} ->
                [counted EXCEPT !.updated = @ + 1]
         [] operation.action = "delete" ->
                [counted EXCEPT !.deleted = @ + 1]
         [] OTHER -> counted

\* the catch branch that counts the failure and keeps no entry of it
recordFailureUnlisted(res, operation) ==
    [res EXCEPT !.failed = @ + 1]

\* the catch branch of the loop body of executeSyncOperations
recordFailure(res, operation) ==
    [res EXCEPT !.failed = @ + 1,
                !.operations = Append(@, [operation |-> operation, success |-> FALSE])]

\* executeOperation called without await: the loop goes on at once
startWithoutAwait(pending) == TRUE

\* `await this.executeOperation(operation)`: the loop goes on to the next
\* operation only when no call of the awaited one is pending
awaitExecuteOperation(pending) == pending = {}

----------------------------------------------------------------------------
(* The stores a pass can start from *)

Item(pageId, id, itemType, status, module, issueLink, branchUrl, prStatus, prLink, lastModified) ==
    [notionId |-> pageId, id |-> id, title |-> "Crash on start", status |-> status,
     type |-> "Fatal", module |-> module, description |-> "It crashes",
     stepsToReproduce |-> "", issueLink |-> issueLink, branchUrl |-> branchUrl,
     pullRequestStatus |-> prStatus, pullRequestLink |-> prLink,
     lastModified |-> lastModified, itemType |-> itemType]

RawIssue(number, id, state, body, updatedAt) ==
    [number |-> number, html_url |-> IssueUrl(number), repo |-> "app-repo",
     title |-> [form |-> "colon", id |-> id, rest |-> "Crash on start"],
     body |-> body, state |-> state, labels |-> {"bug", "notion-sync"},
     updated_at |-> updatedAt, locked |-> FALSE]

RawPull(number, headId, state, merged, updatedAt) ==
    [number |-> number, html_url |-> PullUrl(number), repo |-> "app-repo",
     state |-> state, merged |-> merged, updated_at |-> updatedAt, head_id |-> headId]

B1 == "https://github.com/tree/b1"

\* as formatIssueBody writes it, without and with a Development section
Bodies == {formatIssueBody([description |-> "It crashes", stepsToReproduce |-> ""], u) :
              u \in {"", B1}}

\* number the pages of a ledger and the issues of a tracker by their position
Numbered(seq, key) == [i \in 1..Len(seq) |-> [seq[i] EXCEPT ![key] = i]]

OptSeq(set) == {<<>>} \cup {<<x>> : x \in set}

\* issue sync: a bug with or without its issue, and an issue without its bug
IssueSyncStores ==
    {[ledger |-> l, issues |-> i1 \o i2, prs |-> <<>>] :
        l \in OptSeq({Item(1, "CBUG-1", "bug", st, mo, il, br, "None", "", lm) :
                 st \in {"Reported", "Fixed"},
                 mo \in {"Application", "Hardware", ""},
                 il \in {"", IssueUrl(1)}, br \in {"", B1}, lm \in 1..MaxTime}),
        i1 \in OptSeq({RawIssue(1, "CBUG-1", st, bo, up) :
                 st \in {"open", "closed"}, bo \in Bodies, up \in 1..MaxTime}),
        i2 \in OptSeq({RawIssue(1, "CBUG-2", "open", <<>>, 1)})}

\* pull request sync: a bug with its issue, a task, and their pull requests
PullSyncStores ==
    {[ledger |-> <<b>> \o t,
      issues |-> <<RawIssue(1, "CBUG-1", "open", <<>>, 1)>>,
      prs |-> p1 \o p2] :
        b \in {Item(1, "CBUG-1", "bug", "Reported", "Application", IssueUrl(1), "",
                    ps, pl, 1) : ps \in {"None", "Open"}, pl \in {"", PullUrl(1)}},
        t \in OptSeq({Item(1, "TSK-1", "task", "Reported", "Application", "", "",
                    ps, "", 1) : ps \in {"None", "Open"}}),
        p1 \in OptSeq({RawPull(1, "CBUG-1", st[1], st[2], 1) :
                    st \in {<<"open", FALSE>>, <<"closed", TRUE>>}}),
        p2 \in OptSeq({RawPull(1, "TSK-1", "open", FALSE, 1)})}

NoResults == [created |-> 0, updated |-> 0, deleted |-> 0, failed |-> 0,
              operations |-> <<>>]

\* dryRun has not run
NotRun == [ran |-> FALSE, operations |-> <<>>]

\* the interval timer has not fired again
NotStarted == [pc |-> "idle", operations |-> <<>>, index |-> 1, calls |-> {},
               results |-> NoResults, tick |-> 0]

\* no webhook has arrived
NoHook == [pc |-> "idle", writes |-> <<>>, calls |-> {}, error |-> Null]

InitFrom(stores) ==
    /\ \E s \in stores :
        /\ notion = Numbered(s.ledger, "notionId")
        /\ github = [i \in 1..Len(s.issues) |->
                        [s.issues[i] EXCEPT !.number = i, !.html_url = IssueUrl(i)]]
        /\ pulls = [i \in 1..Len(s.prs) |->
                        [s.prs[i] EXCEPT !.number = i, !.html_url = PullUrl(i)]]
    /\ comments = [i \in 1..Len(github) |-> 0]
    /\ clock = MaxTime + 1
    /\ pc = "idle"
    /\ fetched = fetchAll(<<>>, <<>>, <<>>)
    /\ operations = <<>>
    /\ index = 1
    /\ calls = {}
    /\ results = NoResults
    /\ attempts = <<>>
    /\ trace = <<>>
    /\ outage = {}
    /\ dry = NotRun
    /\ later = NotStarted
    /\ branches = {}
    /\ hook = NoHook

\* status sync: one bug and its issue, over every status and timestamp
StatusStores ==
    {[ledger |-> <<Item(1, "CBUG-1", "bug", st, "Application", il, "", "None", "", lm)>>,
      issues |-> <<RawIssue(1, "CBUG-1", gs, <<>>, up)>>,
      prs |-> <<>>] :
        st \in Statuses, il \in {"", IssueUrl(1)}, lm \in 0..MaxTime,
        gs \in {"open", "closed"}, up \in 1..MaxTime}

\* an item that lacks one of its properties ("none": it lacks nothing)
Lacking(item, field) ==
    IF field = "none" THEN item ELSE [item EXCEPT ![field] = ""]

RequiredFields == {"id", "title", "module", "type"}

\* a link to an issue that is not, or no longer, the item's issue
StaleUrl == "https://github.com/issues/stale"

\* validation and pull request clearing: a bug and a task, each complete or
\* lacking one required property, with or without a pull request
ValidationStores ==
    {[ledger |-> b \o t, issues |-> i, prs |-> p1 \o p2] :
        b \in OptSeq({Lacking(Item(1, "CBUG-1", "bug", "Reported", "Application",
                                   IssueUrl(1), br, ps, "", 1), f) :
                 f \in RequiredFields \cup {"none"}, br \in {"", B1},
                 ps \in {"", "None", "Open"}}),
        t \in OptSeq({Lacking(Item(1, "TSK-1", "task", "Reported", "Application",
                                   "", br, ps, "", 1), f) :
                 f \in RequiredFields \cup {"none"}, br \in {"", B1},
                 ps \in {"", "None", "Open"}}),
        i \in OptSeq({RawIssue(1, "CBUG-1", "open", <<>>, 1)}),
        p1 \in OptSeq({RawPull(1, "CBUG-1", "open", FALSE, 1)}),
        p2 \in OptSeq({RawPull(1, "TSK-1", "open", FALSE, 1)})}

\* order and orphans: a bug and a task in either order, the bug's issue, up
\* to two issues of a bug that is gone, and an issue titled as the task
OrderStores ==
    {[ledger |-> l, issues |-> i1 \o i2 \o i3, prs |-> <<>>] :
        l \in UNION {{b \o t, t \o b} :
                 b \in OptSeq({Item(1, "CBUG-1", "bug", "Reported", mo, il, br,
                                    "None", "", 1) :
                          mo \in {"Application", ""},
                          il \in {"", IssueUrl(1), StaleUrl}, br \in {"", B1}}),
                 t \in OptSeq({Item(1, "TSK-1", "task", "Reported", "Application",
                                    "", "", ps, "", 1) : ps \in {"None", "Open"}})},
        i1 \in OptSeq({RawIssue(1, "CBUG-1", st, <<>>, 1) : st \in {"open", "closed"}}),
        i2 \in {<<>>, <<RawIssue(1, "CBUG-2", "open", <<>>, 1)>>,
                <<RawIssue(1, "CBUG-2", "open", <<>>, 1),
                  RawIssue(1, "CBUG-2", "closed", <<>>, 1)>>},
        i3 \in OptSeq({RawIssue(1, "TSK-1", "open", <<>>, 1)})}

\* the states and times a pull request can have
PullChoices ==
    {RawPull(1, "TSK-1", st[1], st[2], up) :
        st \in {<<"open", FALSE>>, <<"closed", TRUE>>, <<"closed", FALSE>>},
        up \in 1..MaxTime}

\* pull request choice: a task and every list of up to MaxPulls pull requests
RelevanceStores ==
    {[ledger |-> <<Item(1, "TSK-1", "task", "Reported", "Application", "", "",
                        "None", "", 1)>>,
      issues |-> <<>>,
      prs |-> p] :
        p \in UNION {[1..n -> PullChoices] : n \in 0..MaxPulls}}

\* fetch failures: a bug with its issue and, or not, its pull request
InitFetch ==
    InitFrom(
        {[ledger |-> <<Item(1, "CBUG-1", "bug", "Reported", "Application", IssueUrl(1),
                            "", ps, pl, 1)>>,
          issues |-> <<RawIssue(1, "CBUG-1", "open", <<>>, 1)>>,
          prs |-> p] :
            ps \in {"None", "Open"}, pl \in {"", PullUrl(1)},
            p \in OptSeq({RawPull(1, "CBUG-1", "open", FALSE, 1)})})

\* an id of another prefix, and a string that is no id
OtherIds == {"BUG-7"}

NoIds == {"cbug-1"}

\* the titles an issue can have: every form with every id and with or
\* without text after the id
TitleChoices ==
    {[form |-> f, id |-> i, rest |-> r] :
        f \in {"colon", "bracket", "hyphen", "plain"},
        i \in CbugIds \cup TskIds \cup OtherIds \cup NoIds,
        r \in {"Crash on start", ""}}

\* titles: one or two issues of any title, and no item
InitTitles ==
    InitFrom(
        {[ledger |-> <<>>, issues |-> i1 \o i2, prs |-> <<>>] :
            i1 \in {<<[RawIssue(1, "", "open", <<>>, 1) EXCEPT !.title = t]>> :
                      t \in TitleChoices},
            i2 \in OptSeq({[RawIssue(1, "", "open", <<>>, 1) EXCEPT !.title = t] :
                      t \in {[form |-> "colon", id |-> "CBUG-1", rest |-> "Crash on start"],
                              [form |-> "bracket", id |-> "CBUG-1", rest |-> "Crash on start"],
                              [form |-> "hyphen", id |-> "CBUG-1", rest |-> "Crash on start"]}})})

B2 == "https://github.com/tree/b2"

B12 == "https://github.com/tree/b12"

\* bodies as people leave them: empty, plain text, a Development heading
\* with another branch, with nothing under it, or as the last line
BodyChoices ==
    Bodies
    \cup {<<>>,
          << <<Line("It crashes", "")>> >>,
          << <<DevelopmentHeading, BranchLine(B2)>>, <<FooterRule, FooterText>> >>,
          << <<DevelopmentHeading, BranchLine(B12)>>, <<FooterRule, FooterText>> >>,
          << <<DevelopmentHeading>>, <<FooterRule, FooterText>> >>,
          << <<DevelopmentHeading>>, <<BranchLine(B2)>> >>,
          << <<Line("It crashes", "")>>, <<DevelopmentHeading>> >>}

\* a bug with a branch and its issue, over the bodies
InitBodies ==
    InitFrom(
        {[ledger |-> <<Item(1, "CBUG-1", "bug", st, "Application", IssueUrl(1), br,
                            "None", "", 1)>>,
          issues |-> <<RawIssue(1, "CBUG-1", "open", bo, 1)>>, prs |-> <<>>] :
            st \in {"Reported", "Fixed"}, br \in {B1, B2}, bo \in BodyChoices})

\* scheduled passes: a bug with or without its issue
InitSchedule ==
    InitFrom(
        {[ledger |-> <<Item(1, "CBUG-1", "bug", st, mo, "", br, "None", "", 1)>>,
          issues |-> i, prs |-> <<>>] :
            st \in {"Reported", "Fixed"}, mo \in {"Application", "Hardware", "Nowhere"},
            br \in {"", B1},
            i \in OptSeq({RawIssue(1, "CBUG-1", "open", <<>>, 1)})})

\* the passes of the scheduler: a bug and its issue, with or without the
\* link to the issue on the page
InitTicks ==
    InitFrom(
        {[ledger |-> <<Item(1, "CBUG-1", "bug", "Reported", "Application", il, "",
                            "None", "", 1)>>,
          issues |-> <<RawIssue(1, "CBUG-1", "open", <<>>, 1)>>, prs |-> <<>>] :
            il \in {"", IssueUrl(1)}})

\* round trip: a valid bug of either prefix that has no issue yet
InitRoundTrip ==
    InitFrom(
        {[ledger |-> <<Item(1, id, "bug", st, mo, "", br, "None", "", 1)>>,
          issues |-> <<>>, prs |-> <<>>] :
            id \in CbugIds \cup OtherIds, st \in {"Reported", "In Progress", "Fixed"},
            mo \in {"Application", "Hardware"}, br \in {"", B1}})

\* webhooks: a bug or a task of any id, with or without an issue of the
\* bug CBUG-1
InitHook ==
    InitFrom(
        {[ledger |-> <<it>>, issues |-> i, prs |-> <<>>] :
            it \in {Lacking(Item(1, id, ty, "Reported", mo, "", "", "None", "", 1), f) :
                      id \in {"CBUG-1", "TSK-1", "BUG-7", "cbug-1"}, ty \in {"bug"},
                      mo \in {"Application", "Hardware", ""}, f \in {"none", "title"}},
            i \in OptSeq({RawIssue(1, "CBUG-1", "open", bo, 1) :
                      bo \in Bodies \cup {<<>>}})})

\* webhooks sent again and again: a bug of a known or an unknown prefix,
\* with or without its issue
InitHookLive ==
    InitFrom(
        {[ledger |-> <<Item(1, id, "bug", "Reported", "Application", "", "", "None", "", 1)>>,
          issues |-> i, prs |-> <<>>] :
            id \in {"CBUG-1", "cbug-1"},
            i \in OptSeq({RawIssue(1, "CBUG-1", "open", <<>>, 1)})})

Init == InitFrom(IssueSyncStores \cup PullSyncStores \cup OrderStores)

InitPlan == InitFrom(StatusStores)

InitItems == InitFrom(ValidationStores \cup OrderStores)

InitPulls == InitFrom(RelevanceStores)

----------------------------------------------------------------------------
(* performFullSync *)

\* steps 1 to 3: fetch both stores, build the maps, plan
FetchAndPlan ==
    /\ pc = "idle"
    /\ fetched' = fetchAll(notion, github, pulls)
    /\ operations' = plan(fetched')
    /\ attempts' = [k \in 1..Len(operations') |-> 0]
    /\ index' = 1
    /\ results' = NoResults
    /\ pc' = "exec"
    /\ UNCHANGED <<notion, github, pulls, comments, clock, calls, trace, outage, aside>>

\* steps 1 to 3 when the fetches of `down` throw: a failed fetch of the
\* items rejects the Promise.all and ends the pass in error
FetchAndPlanDuringOutage ==
    /\ pc = "idle"
    /\ \E down \in SUBSET Fetches :
          /\ outage' = down
          /\ IF [kind |-> "items", repo |-> ""] \in down
             THEN /\ pc' = "error"
                  /\ fetched' = fetched
                  /\ operations' = <<>>
             ELSE /\ pc' = "exec"
                  /\ fetched' = fetchAllDuring(notion, github, pulls, down)
                  /\ operations' = plan(fetched')
    /\ attempts' = [k \in 1..Len(operations') |-> 0]
    /\ index' = 1
    /\ results' = NoResults
    /\ UNCHANGED <<notion, github, pulls, comments, clock, calls, trace, aside>>

\* one iteration of the for-loop of executeSyncOperations, up to the first
\* await of the operation's handler
StartOperation ==
    /\ pc = "exec"
    /\ index <= Len(operations)
    /\ awaitExecuteOperation(calls)
    /\ LET operation == operations[index]
           next == executeOperation(operation, "start", TRUE, NullObj)
       IN /\ calls' = IF next.kind = "call"
                      THEN calls \cup {[op |-> index, name |-> next.name,
                                        arg |-> next.arg]}
                      ELSE calls
          /\ results' = CASE next.kind = "return" -> recordSuccess(results, operation)
                          [] next.kind = "throw" -> recordFailure(results, operation)
                          [] OTHER -> results
    /\ attempts' = [attempts EXCEPT ![index] = @ + 1]
    /\ index' = index + 1
    /\ UNCHANGED <<notion, github, pulls, comments, clock, pc, fetched, operations,
                   trace, outage, aside>>

\* the Tracker after call c has taken effect
githubAfter(c, source) ==
    CASE c.name = "createIssue" ->
            createIssue(github, c.arg.repo, source, source.branchUrl, clock)
      [] c.name = "updateIssueState" ->
            updateIssueState(github, c.arg.issue, c.arg.state, clock)
      [] c.name = "deleteIssue.update" ->
            updateIssueState(github, c.arg.issue, "closed", clock)
      [] c.name = "deleteIssue.lock" -> lockIssue(github, c.arg.issue)
      [] c.name = "updateIssueBody" ->
            updateIssueBody(github, c.arg.issue, c.arg.body, clock)
      [] c.name = "addComment" ->
            [github EXCEPT ![c.arg.issue].updated_at = clock]
      [] OTHER -> github

\* the Ledger after call c has taken effect
notionAfter(c) ==
    CASE c.name \in {"updateBugIssueLink", "updateTaskIssueLink"} ->
            updateBugIssueLink(notion, c.arg.pageId, c.arg.url, clock)
      [] c.name \in {"updateBugStatus", "updateTaskStatus"} ->
            updateBugStatus(notion, c.arg.pageId, c.arg.status, clock)
      [] c.name \in {"updateBugProperties", "updateTaskProperties"} ->
            updateProperties(notion, c.arg.pageId, c.arg.updates, clock)
      [] c.name = "updateBugPullRequestLink" ->
            updateBugPullRequestLink(notion, c.arg.pageId, c.arg.url, clock)
      [] OTHER -> notion

\* call c returns (ok) or throws; its handler runs on to its next await, or
\* ends, and then the loop body of executeSyncOperations records the outcome
Settle(c, ok) ==
    /\ c \in calls
    /\ LET operation == operations[c.op]
           newGithub == IF ok THEN githubAfter(c, operation.source) ELSE github
           resp == IF ok /\ c.name = "createIssue"
                   THEN formatIssueData(newGithub[Len(newGithub)], c.arg.repo)
                   ELSE NullObj
           next == executeOperation(operation, c.name, ok, resp)
       IN /\ github' = newGithub
          /\ notion' = IF ok THEN notionAfter(c) ELSE notion
          /\ comments' = IF ok /\ c.name = "addComment"
                         THEN [comments EXCEPT ![c.arg.issue] = @ + 1]
                         ELSE IF ok /\ c.name = "createIssue"
                              THEN Append(comments, 0)
                              ELSE comments
          /\ calls' = (calls \ {c})
                      \cup (IF next.kind = "call"
                            THEN {[op |-> c.op, name |-> next.name, arg |-> next.arg]}
                            ELSE {})
          /\ results' = CASE next.kind = "return" -> recordSuccess(results, operation)
                          [] next.kind = "throw" -> recordFailure(results, operation)
                          [] OTHER -> results
    /\ clock' = IF ok THEN clock + 1 ELSE clock
    /\ trace' = Append(trace, [op |-> c.op, name |-> c.name, ok |-> ok])
    /\ UNCHANGED <<pulls, pc, fetched, operations, index, attempts, outage, aside>>

CallReturns == \E c \in calls : Settle(c, TRUE)

CallThrows == \E c \in calls : Settle(c, FALSE)

\* the loop of executeSyncOperations is over: performFullSync returns results
Finish ==
    /\ pc = "exec"
    /\ index > Len(operations)
    /\ awaitExecuteOperation(calls)
    /\ pc' = "done"
    /\ UNCHANGED <<notion, github, pulls, comments, clock, fetched, operations,
                   index, calls, results, attempts, trace, outage, aside>>

----------------------------------------------------------------------------
(* GitHubNotionSync.runScheduled: the pass of the next tick of setInterval.  *)
(* The callback calls runOnce whatever the pass of the tick before is doing. *)

\* the interval stays set after a pass that threw
\* (mutation: an error of a pass clears the interval)
callbackRethrows(outcomes) == "error" \notin outcomes

\* the callback of setInterval and runScheduled catch what runOnce throws,
\* so the interval is set whatever the outcomes of the passes so far
callbackCatches(outcomes) == TRUE

TimerFires ==
    /\ pc # "idle"
    /\ later.pc = "idle"
    /\ callbackCatches({pc})
    /\ later' = [pc |-> "exec", operations |-> plan(fetchAll(notion, github, pulls)),
                 index |-> 1, calls |-> {}, results |-> NoResults,
                 tick |-> 1 - later.tick]
    /\ UNCHANGED <<notion, github, pulls, comments, clock, pc, fetched, operations,
                   index, calls, results, attempts, trace, outage, dry, branches,
                   hook>>

\* StartOperation in the pass of the next tick
LaterStartOperation ==
    /\ later.pc = "exec"
    /\ later.index <= Len(later.operations)
    /\ awaitExecuteOperation(later.calls)
    /\ LET operation == later.operations[later.index]
           next == executeOperation(operation, "start", TRUE, NullObj)
       IN later' = [later EXCEPT
               !.calls = IF next.kind = "call"
                         THEN @ \cup {[op |-> later.index, name |-> next.name,
                                       arg |-> next.arg]}
                         ELSE @,
               !.results = CASE next.kind = "return" -> recordSuccess(@, operation)
                             [] next.kind = "throw" -> recordFailure(@, operation)
                             [] OTHER -> @,
               !.index = @ + 1]
    /\ UNCHANGED <<notion, github, pulls, comments, clock, pc, fetched, operations,
                   index, calls, results, attempts, trace, outage, dry, branches,
                   hook>>

\* Settle in the pass of the next tick
LaterSettle(c, ok) ==
    /\ c \in later.calls
    /\ LET operation == later.operations[c.op]
           newGithub == IF ok THEN githubAfter(c, operation.source) ELSE github
           resp == IF ok /\ c.name = "createIssue"
                   THEN formatIssueData(newGithub[Len(newGithub)], c.arg.repo)
                   ELSE NullObj
           next == executeOperation(operation, c.name, ok, resp)
       IN /\ github' = newGithub
          /\ notion' = IF ok THEN notionAfter(c) ELSE notion
          /\ comments' = IF ok /\ c.name = "addComment"
                         THEN [comments EXCEPT ![c.arg.issue] = @ + 1]
                         ELSE IF ok /\ c.name = "createIssue"
                              THEN Append(comments, 0)
                              ELSE comments
          /\ later' = [later EXCEPT
                  !.calls = (@ \ {c})
                            \cup (IF next.kind = "call"
                                  THEN {[op |-> c.op, name |-> next.name,
                                         arg |-> next.arg]}
                                  ELSE {}),
                  !.results = CASE next.kind = "return" -> recordSuccess(@, operation)
                                [] next.kind = "throw" -> recordFailure(@, operation)
                                [] OTHER -> @]
    /\ clock' = IF ok THEN clock + 1 ELSE clock
    /\ UNCHANGED <<pulls, pc, fetched, operations, index, calls, results, attempts,
                   trace, outage, dry, branches, hook>>

LaterCallReturns == \E c \in later.calls : LaterSettle(c, TRUE)

LaterCallThrows == \E c \in later.calls : LaterSettle(c, FALSE)

\* Finish in the pass of the next tick
LaterFinish ==
    /\ later.pc = "exec"
    /\ later.index > Len(later.operations)
    /\ awaitExecuteOperation(later.calls)
    /\ later' = [later EXCEPT !.pc = "done"]
    /\ UNCHANGED <<notion, github, pulls, comments, clock, pc, fetched, operations,
                   index, calls, results, attempts, trace, outage, dry, branches,
                   hook>>

\* the pass a tick starts while the fetches of `down` throw: it ends in
\* error at once when the fetch of the items throws. `tick` tells a pass
\* from the pass of the tick before.
laterPass(down) ==
    IF [kind |-> "items", repo |-> ""] \in down
    THEN [pc |-> "error", operations |-> <<>>, index |-> 1, calls |-> {},
          results |-> NoResults, tick |-> 1 - later.tick]
    ELSE [pc |-> "exec",
          operations |-> plan(fetchAllDuring(notion, github, pulls, down)),
          index |-> 1, calls |-> {}, results |-> NoResults, tick |-> 1 - later.tick]

\* the fetch whose failure ends a pass in error
ItemsDown == {[kind |-> "items", repo |-> ""]}

\* TimerFires while the fetch of the items throws
TimerFiresDuringOutage ==
    /\ pc # "idle"
    /\ later.pc = "idle"
    /\ callbackCatches({pc})
    /\ later' = laterPass(ItemsDown)
    /\ UNCHANGED <<notion, github, pulls, comments, clock, pc, fetched, operations,
                   index, calls, results, attempts, trace, outage, dry, branches,
                   hook>>

\* the tick after a pass of a tick has ended, well or in error
TimerFiresAgain ==
    /\ pc # "idle"
    /\ later.pc \in {"done", "error"}
    /\ callbackCatches({pc, later.pc})
    /\ \E down \in {{}, ItemsDown} : later' = laterPass(down)
    /\ UNCHANGED <<notion, github, pulls, comments, clock, pc, fetched, operations,
                   index, calls, results, attempts, trace, outage, dry, branches,
                   hook>>

NextSchedule ==
    \/ FetchAndPlan \/ StartOperation \/ CallReturns \/ CallThrows \/ Finish
    \/ TimerFires \/ LaterStartOperation \/ LaterCallReturns \/ LaterCallThrows
    \/ LaterFinish

\* the passes of two ticks that follow each other
SpecSchedule == InitSchedule /\ [][NextSchedule]_vars

\* runOnce throws before the pass has fetched anything: initialize or the
\* fetch of the items threw
RunOnceThrows ==
    /\ pc = "idle"
    /\ pc' = "error"
    /\ UNCHANGED <<notion, github, pulls, comments, clock, fetched, operations,
                   index, calls, results, attempts, trace, outage, aside>>

Ticks == TimerFires \/ TimerFiresDuringOutage \/ TimerFiresAgain

LaterPassSteps ==
    LaterStartOperation \/ LaterCallReturns \/ LaterCallThrows \/ LaterFinish

NextTicks ==
    \/ FetchAndPlan \/ RunOnceThrows
    \/ StartOperation \/ CallReturns \/ CallThrows \/ Finish
    \/ Ticks \/ LaterPassSteps

\* the scheduler for ever: the timer keeps firing while the interval is set,
\* and every call of a pass settles
SpecTicks ==
    /\ InitTicks
    /\ [][NextTicks]_vars
    /\ WF_vars(Ticks)
    /\ WF_vars(LaterPassSteps)

----------------------------------------------------------------------------
(* GitHubNotionSync.dryRun *)

\* the operations dryRun reports: it fetches the items and the issues only,
\* and plans with the default, empty map of pull requests
dryRunOperations(ledger, issues) ==
    LET maps == createMappings(ledger, fetchAllSyncedIssues(issues, Repositories),
                               <<>>)
    IN determineSyncOperations(maps.bugMap, maps.issueMap, <<>>)

DryRun ==
    /\ ~dry.ran
    /\ dry' = [ran |-> TRUE, operations |-> dryRunOperations(notion, github)]
    /\ UNCHANGED <<notion, github, pulls, comments, clock, pc, fetched, operations,
                   index, calls, results, attempts, trace, outage, later, branches,
                   hook>>

NextDry == DryRun \/ FetchAndPlan

\* a dry run and the planning of a pass on the same stores
SpecDry == Init /\ [][NextDry]_vars

----------------------------------------------------------------------------
(* WebhookHandler *)

\* the url of the branch that createBranch makes for an item
HookBranchUrl(id) == "https://github.com/tree/" \o id

\* extractBugIdFromIssueTitle of WebhookHandler
extractBugIdFromIssueTitle(title) ==
    IF title.form \in {"bracket", "colon"} /\ title.id \in (CbugIds \cup TskIds)
       /\ title.rest # ""
    THEN title.id
    ELSE Null

\* the call of updateNotionWithBranchLink, by the prefix of the id; for an
\* id of no known prefix it calls a method the handler does not have
updateNotionWithBranchLink(id) ==
    CASE id \in CbugIds \cup OtherIds -> {"updateBugProperties"}
      [] id \in TskIds -> {"updateTaskBranchLink"}
      [] OTHER -> {}

\* findGitHubIssueByBugId: the first fetched issue titled with the id
findGitHubIssueByBugId(issues, bugId) ==
    LET hits == {i \in 1..Len(issues) :
                    extractBugIdFromIssueTitle(issues[i].title) = bugId}
    IN IF hits = {} THEN NullObj
       ELSE issues[CHOOSE i \in hits : \A j \in hits : i <= j]

\* the payload Notion sends for a page: data.id (0: absent) and the
\* properties as extractTitle, extractId and extractModule read them
Payload(page, hasPageId) ==
    [title |-> page.title, id |-> page.id,
     module |-> IF Truthy(page.module) THEN page.module ELSE "Application",
     pageId |-> IF hasPageId THEN page.notionId ELSE 0]

\* the checks with the repository looked up before the page id
validateWebhookModuleFirst(payload) ==
    IF ~Truthy(payload.title) \/ ~Truthy(payload.id) THEN "INVALID_WEBHOOK"
    ELSE IF payload.module \notin DOMAIN ModuleMapping THEN "UNKNOWN_MODULE"
    ELSE IF payload.pageId = 0 THEN "MISSING_PAGE_ID"
    ELSE Null

\* the checks of processWebhook and createBranchFromWebhook before the
\* branch is made: the error code, or null when the payload passes
validateWebhook(payload) ==
    IF ~Truthy(payload.title) \/ ~Truthy(payload.id) THEN "INVALID_WEBHOOK"
    ELSE IF payload.pageId = 0 THEN "MISSING_PAGE_ID"
    ELSE IF payload.module \notin DOMAIN ModuleMapping THEN "UNKNOWN_MODULE"
    ELSE Null

\* processWebhook and createBranchFromWebhook up to the first await
WebhookArrives ==
    /\ hook.pc \in {"idle", "done"}
    /\ \E i \in 1..Len(notion) : \E hasPageId \in BOOLEAN :
          LET payload == Payload(notion[i], hasPageId)
              error == validateWebhook(payload)
          IN hook' =
               IF error # Null
               THEN [pc |-> "done", writes |-> <<>>, calls |-> {}, error |-> error,
                     payload |-> payload]
               ELSE [pc |-> "running", writes |-> <<>>, calls |-> {"createBranch"},
                     error |-> Null, payload |-> payload,
                     id |-> payload.id, pageId |-> payload.pageId,
                     repo |-> ModuleMapping[payload.module],
                     url |-> HookBranchUrl(payload.id), patch |-> NullObj]
    /\ UNCHANGED <<notion, github, pulls, comments, clock, pc, fetched, operations,
                   index, calls, results, attempts, trace, outage, dry, later,
                   branches>>

\* the hook after one of its calls has settled, with its new calls
hookAfter(name, wrote, started) ==
    [hook EXCEPT !.calls = (@ \ {name}) \cup started,
                 !.writes = IF wrote THEN Append(@, name) ELSE @,
                 !.pc = IF (hook.calls \ {name}) \cup started = {}
                        THEN "done" ELSE "running"]

\* createBranch settles: the branch is made, or it exists already (null),
\* or the call throws
BranchSettles(ok) ==
    /\ hook.pc = "running"
    /\ "createBranch" \in hook.calls
    /\ IF ok /\ hook.url \notin branches
       THEN /\ branches' = branches \cup {hook.url}
            /\ hook' = hookAfter("createBranch", TRUE,
                            updateNotionWithBranchLink(hook.id)
                            \cup {"fetchSyncedIssues"})
       ELSE /\ branches' = branches
            /\ hook' = [hookAfter("createBranch", FALSE, {}) EXCEPT
                            !.pc = "done",
                            !.error = IF ok THEN "BRANCH_EXISTS"
                                      ELSE "BRANCH_CREATION_FAILED"]
    /\ UNCHANGED <<notion, github, pulls, comments, clock, pc, fetched, operations,
                   index, calls, results, attempts, trace, outage, dry, later>>

\* the update of the Branch Link property of the page settles
NotionLinkSettles(ok) ==
    /\ hook.pc = "running"
    /\ \E name \in hook.calls \cap {"updateBugProperties", "updateTaskBranchLink"} :
          /\ hook' = hookAfter(name, ok, {})
          /\ notion' = IF ok
                       THEN updateProperties(notion, hook.pageId,
                                             [branchUrl |-> hook.url], clock)
                       ELSE notion
    /\ clock' = IF ok THEN clock + 1 ELSE clock
    /\ UNCHANGED <<github, pulls, comments, pc, fetched, operations, index, calls,
                   results, attempts, trace, outage, dry, later, branches>>

\* fetchSyncedIssues of findGitHubIssueByBugId settles; with the issue found
\* updateGitHubIssueBody runs up to its call of updateIssueBody
IssueSearchSettles(ok) ==
    /\ hook.pc = "running"
    /\ "fetchSyncedIssues" \in hook.calls
    /\ LET issue == IF ok
                    THEN findGitHubIssueByBugId(fetchSyncedIssues(github, hook.repo),
                                                hook.id)
                    ELSE NullObj
           linked == /\ issue # NullObj
                     /\ FirstLine(issue.body, DevelopmentHeading.text, "") # <<0, 0>>
                     /\ BodyIncludesUrl(issue.body, hook.url)
       IN hook' = IF issue = NullObj \/ linked
                  THEN hookAfter("fetchSyncedIssues", FALSE, {})
                  ELSE [hookAfter("fetchSyncedIssues", FALSE, {"updateIssueBody"})
                           EXCEPT !.patch = [issue |-> issue.githubId,
                                             body |-> branchLinkBody(issue.body,
                                                                     hook.url)]]
    /\ UNCHANGED <<notion, github, pulls, comments, clock, pc, fetched, operations,
                   index, calls, results, attempts, trace, outage, dry, later,
                   branches>>

\* updateIssueBody of updateGitHubIssueBody settles; its error is swallowed
IssueBodySettles(ok) ==
    /\ hook.pc = "running"
    /\ "updateIssueBody" \in hook.calls
    /\ hook' = hookAfter("updateIssueBody", ok, {})
    /\ github' = IF ok
                 THEN updateIssueBody(github, hook.patch.issue, hook.patch.body, clock)
                 ELSE github
    /\ clock' = IF ok THEN clock + 1 ELSE clock
    /\ UNCHANGED <<notion, pulls, comments, pc, fetched, operations, index, calls,
                   results, attempts, trace, outage, dry, later, branches>>

HookCallReturns ==
    BranchSettles(TRUE) \/ NotionLinkSettles(TRUE) \/ IssueSearchSettles(TRUE)
    \/ IssueBodySettles(TRUE)

HookCallThrows ==
    BranchSettles(FALSE) \/ NotionLinkSettles(FALSE) \/ IssueSearchSettles(FALSE)
    \/ IssueBodySettles(FALSE)

NextHook == WebhookArrives \/ HookCallReturns \/ HookCallThrows

\* webhooks alone, on the stores of InitHook
SpecHook == InitHook /\ [][NextHook]_vars

----------------------------------------------------------------------------
(* performFullSync, the whole pass *)

Next == FetchAndPlan \/ StartOperation \/ CallReturns \/ CallThrows \/ Finish

Spec == Init /\ [][Next]_vars

\* a pass over the stores of InitRoundTrip
SpecRoundTrip == InitRoundTrip /\ [][Next]_vars

\* a pass over the stores of StatusStores
SpecStatus == InitPlan /\ [][Next]_vars

\* webhooks, sent again at will, and a sync pass, on the stores of InitHook
NextHookSync == NextHook \/ Next

SpecHookSync == InitHook /\ [][NextHookSync]_vars

\* every step that can be taken is taken in the end, and a call that can
\* return again and again does return in the end
SpecHookLive ==
    /\ InitHookLive
    /\ [][NextHookSync]_vars
    /\ WF_vars(NextHookSync)
    /\ SF_vars(HookCallReturns)
    /\ SF_vars(CallReturns)

\* passes over the stores of InitBodies
SpecBodies == InitBodies /\ [][Next]_vars

\* a pass of which some fetches fail, on the stores of InitFetch
NextFetch ==
    FetchAndPlanDuringOutage \/ StartOperation \/ CallReturns \/ CallThrows \/ Finish

SpecFetch == InitFetch /\ [][NextFetch]_vars

\* the planner alone, on the stores of StatusStores
SpecPlan == InitPlan /\ [][FetchAndPlan]_vars

\* the planner alone, on the stores of ValidationStores and OrderStores
SpecItems == InitItems /\ [][FetchAndPlan]_vars

\* the planner alone, on the stores of InitTitles
SpecTitles == InitTitles /\ [][FetchAndPlan]_vars

\* the planner alone, on the stores of RelevanceStores
SpecPulls == InitPulls /\ [][FetchAndPlan]_vars

----------------------------------------------------------------------------
(* The claims about the planner *)

Maps == createMappings(fetched.allItems, fetched.githubIssues, fetched.githubPRs)

\* the valid bugs of the snapshot that have an issue, each with its issue
MatchedBugs ==
    {<<Maps.bugMap[i][2], MapGet(Maps.issueMap, Maps.bugMap[i][1], NullObj)>> :
        i \in {j \in 1..Len(Maps.bugMap) :
                 /\ Maps.bugMap[j][2].itemType # "task"
                 /\ validateBugForSync(Maps.bugMap[j][2])
                 /\ MapHas(Maps.issueMap, Maps.bugMap[j][1])}}

\* the plan holds an operation `action` whose source is the item `id`
Planned(action, id) ==
    \E k \in 1..Len(operations) :
        operations[k].action = action /\ operations[k].source.id = id

\* the statuses of a bug and its issue disagree in both directions
BothDisagree(bug, issue) ==
    /\ issue.state # mapNotionStatusToGitHubState(bug.status)
    /\ bug.status # mapGitHubStateToNotionStatus(issue.state, bug.status)

\* C2: one plan never holds both update_github_state and update_notion_status
\* for the same bug, whatever the statuses and timestamps
C2_NeverBothDirections ==
    pc # "idle" =>
        \A m \in MatchedBugs :
            ~(Planned("update_github_state", m[1].id)
              /\ Planned("update_notion_status", m[1].id))

\* a bug whose status disagrees with its issue has been planned
C2_Witness ==
    /\ pc # "idle"
    /\ \E m \in MatchedBugs :
          BothDisagree(m[1], m[2]) /\ Planned("update_github_state", m[1].id)

\* C3: when both directions disagree and the bug's lastModified (missing: 0)
\* is strictly earlier than the issue's updatedAt, the plan holds
\* update_notion_status for the bug and no update_github_state
C3_TrackerWinsWhenNewer ==
    pc # "idle" =>
        \A m \in MatchedBugs :
            (BothDisagree(m[1], m[2]) /\ m[1].lastModified < m[2].updatedAt)
            => /\ Planned("update_notion_status", m[1].id)
               /\ ~Planned("update_github_state", m[1].id)

\* C4: when both directions disagree and the bug's lastModified is later than
\* or equal to the issue's updatedAt, the plan holds update_github_state for
\* the bug and no update_notion_status; for a Fixed bug with an open issue
\* the state asked for, and the state the executor sets, is closed
C4_LedgerWinsWhenNewerOrTied ==
    pc # "idle" =>
        \A m \in MatchedBugs :
            (BothDisagree(m[1], m[2]) /\ m[1].lastModified >= m[2].updatedAt)
            => /\ ~Planned("update_notion_status", m[1].id)
               /\ \E k \in 1..Len(operations) :
                     /\ operations[k].action = "update_github_state"
                     /\ operations[k].source = m[1]
                     /\ operations[k].target = m[2]
                     /\ (m[1].status = "Fixed" /\ m[2].state = "open")
                        => /\ operations[k].reason[4] = "closed"
                           /\ updateGitHubIssueState(m[1], m[2], "start", TRUE).arg.state
                                = "closed"

\* a Fixed bug and its open issue with equal timestamps have been planned
C4_Witness ==
    /\ pc # "idle"
    /\ \E m \in MatchedBugs :
          /\ m[1].status = "Fixed" /\ m[2].state = "open"
          /\ m[1].lastModified = m[2].updatedAt
          /\ Planned("update_github_state", m[1].id)

----------------------------------------------------------------------------
(* The claims about a pass *)

\* every external call of the pass so far returned
AllCallsReturned == \A t \in 1..Len(trace) : trace[t].ok

\* the call `name` of operation k has settled with outcome ok
Settled(k, name, ok) ==
    \E t \in 1..Len(trace) : trace[t] = [op |-> k, name |-> name, ok |-> ok]

\* C1: when every operation of a pass has executed successfully, planning
\* again on the freshly fetched stores returns no operation
C1_PassIsIdempotent ==
    (pc = "done" /\ AllCallsReturned /\ results.failed = 0)
    => plan(fetchAll(notion, github, pulls)) = <<>>

\* C5: when both directions disagree and the bug was last modified before
\* its issue was closed (reopened), a pass whose operations all succeed sets
\* the bug to Fixed (Reported) and leaves the issue closed (open)
C5_TrackerChangeReachesLedger ==
    (pc = "done" /\ AllCallsReturned /\ results.failed = 0)
    => \A m \in MatchedBugs :
          m[1].lastModified < m[2].updatedAt
          => /\ (m[2].state = "closed"
                 /\ m[1].status \in {"Reported", "Blocked", "In Progress", "In Review"})
                => /\ notion[m[1].notionId].status = "Fixed"
                   /\ github[m[2].githubId].state = "closed"
             /\ (m[2].state = "open" /\ m[1].status \in {"Fixed", "Rejected"})
                => /\ notion[m[1].notionId].status = "Reported"
                   /\ github[m[2].githubId].state = "open"

\* C6: every operation is attempted exactly once, the result list holds one
\* entry per operation in list order, and a failed operation never keeps the
\* later ones from being attempted
C6_FailureIsolation ==
    /\ \A k \in 1..Len(operations) : attempts[k] <= 1
    /\ Len(results.operations) <= Len(operations)
    /\ \A j \in 1..Len(results.operations) :
          results.operations[j].operation = operations[j] /\ attempts[j] = 1
    /\ pc = "exec" => ENABLED Next
    /\ pc = "done" =>
          /\ Len(results.operations) = Len(operations)
          /\ \A k \in 1..Len(operations) : attempts[k] = 1

\* a pass has ended in which an operation succeeded after an earlier one failed
C6_Witness ==
    /\ pc = "done"
    /\ \E j, k \in 1..Len(results.operations) :
          j < k /\ ~results.operations[j].success /\ results.operations[k].success

\* C7: the operations of a pass run one after the other in list order: while
\* a call of operation k is pending no other call is, every earlier operation
\* has its result and no later operation has been started
C7_SequentialExecution ==
    /\ Cardinality(calls) <= 1
    /\ \A c \in calls :
          /\ attempts[c.op] = 1
          /\ Len(results.operations) = c.op - 1
          /\ \A k \in 1..Len(operations) : k > c.op => attempts[k] = 0
    /\ \A i, j \in 1..Len(trace) : i < j => trace[i].op <= trace[j].op

\* a call of the second operation is pending after the calls of the first
C7_Witness ==
    /\ \E c \in calls : c.op = 2
    /\ \E t \in 1..Len(trace) : trace[t].op = 1

\* C8: after execute, created + updated + deleted + failed is the number of
\* operations in the list
C8_CountersSumToOperations ==
    pc = "done" =>
        results.created + results.updated + results.deleted + results.failed
            = Len(operations)

\* C9: when the explanatory comment of a delete fails, the close-and-lock
\* call on the issue is still made
C9_DeleteClosesAfterFailedComment ==
    \A j \in 1..Len(results.operations) :
        (operations[j].action = "delete" /\ Settled(j, "addComment", FALSE))
        => \E ok \in BOOLEAN : Settled(j, "deleteIssue.update", ok)

\* C10: a delete whose close-and-lock call fails is recorded with outcome
\* failure and counted in failed, not in deleted
C10_FailedCloseIsFailure ==
    \A j \in 1..Len(results.operations) :
        (/\ operations[j].action = "delete"
         /\ Settled(j, "deleteIssue.update", FALSE)
            \/ Settled(j, "deleteIssue.lock", FALSE))
        => /\ ~results.operations[j].success
           /\ results.failed >= 1
           /\ results.deleted
                < Cardinality({k \in 1..Len(results.operations) :
                                  operations[k].action = "delete"})

----------------------------------------------------------------------------
(* The claims about the operations of each item *)

\* the positions in the plan of the operations `action`
PlannedAt(action) == {k \in 1..Len(operations) : operations[k].action = action}

\* the positions in the plan of the operations whose source is `item`
SourcedAt(item) == {k \in 1..Len(operations) : operations[k].source = item}

\* the ids of issueById that itemById lacks
OrphanIds ==
    {Maps.issueMap[i][1] : i \in {j \in 1..Len(Maps.issueMap) :
                                     ~MapHas(Maps.bugMap, Maps.issueMap[j][1])}}

\* C11: for every id of issueById that itemById lacks the plan holds exactly
\* one delete, whose target is the issue of that id, and the plan holds no
\* delete for an id of itemById, the ids of invalid items included
C11_OrphanDetection ==
    pc # "idle" =>
        /\ \A id \in OrphanIds :
              /\ Cardinality({k \in PlannedAt("delete") :
                      extractBugIdFromTitle(operations[k].target.title) = id}) = 1
              /\ \E k \in PlannedAt("delete") :
                      /\ operations[k].target = MapGet(Maps.issueMap, id, NullObj)
                      /\ operations[k].source = NullObj
        /\ \A k \in PlannedAt("delete") :
              ~MapHas(Maps.bugMap, extractBugIdFromTitle(operations[k].target.title))

\* planned: two issues of a bug that is gone, next to an invalid bug that
\* still has its issue
C11_Witness ==
    /\ pc # "idle"
    /\ \E id \in OrphanIds :
          Cardinality({i \in 1..Len(fetched.githubIssues) :
              extractBugIdFromTitle(fetched.githubIssues[i].title) = id}) = 2
    /\ PlannedAt("delete") # {}
    /\ \E i \in 1..Len(Maps.bugMap) :
          /\ ~validateBugForSync(Maps.bugMap[i][2])
          /\ MapHas(Maps.issueMap, Maps.bugMap[i][1])

\* the position of an item in the iteration over itemById
ItemIndex(item) == CHOOSE i \in 1..Len(Maps.bugMap) : Maps.bugMap[i][2] = item

\* C12: in the plan the operations of an earlier item come before those of
\* a later item and every orphan delete comes after every other operation;
\* the executor starts, runs and records the operations in this order
C12_PlanAndExecutionOrder ==
    /\ \A k, l \in 1..Len(operations) :
          k < l =>
             /\ operations[k].action = "delete" => operations[l].action = "delete"
             /\ (operations[k].action # "delete" /\ operations[l].action # "delete")
                => ItemIndex(operations[k].source) <= ItemIndex(operations[l].source)
    /\ \A j \in 1..Len(results.operations) :
          results.operations[j].operation = operations[j]
    /\ \A k \in 1..Len(operations) :
          attempts[k] = 1 => \A j \in 1..k : attempts[j] = 1
    /\ \A i, j \in 1..Len(trace) : i < j => trace[i].op <= trace[j].op

\* a pass has ended whose plan held an operation of a task, then one of a
\* bug, then an orphan delete
C12_Witness ==
    /\ pc = "done"
    /\ Len(results.operations) = Len(operations)
    /\ \E k, l, m \in 1..Len(operations) :
          /\ k < l /\ l < m
          /\ operations[k].action # "delete" /\ operations[k].source.itemType = "task"
          /\ operations[l].action # "delete" /\ operations[l].source.itemType = "bug"
          /\ operations[m].action = "delete"
          /\ \E t \in 1..Len(trace) : trace[t].op = m

\* C13: for every work item, bug or task, that lacks its id, title, module
\* or type, the plan holds no operation whose source is the item
C13_InvalidItemsAreSkipped ==
    pc # "idle" =>
        \A i \in 1..Len(fetched.allItems) :
            ~validateBugForSync(fetched.allItems[i])
            => SourcedAt(fetched.allItems[i]) = {}

IssueActions == {"create", "update_github_state", "update_notion_status",
                 "update_notion_link", "update_github_branch"}

PullActions == {"update_notion_pr", "update_notion_pr_link", "clear_notion_pr"}

\* the tasks of the snapshot
Tasks ==
    {fetched.allItems[i] : i \in {j \in 1..Len(fetched.allItems) :
                                     fetched.allItems[j].itemType = "task"}}

\* C14: whatever issues the snapshot holds, every operation of the plan
\* whose source is a task is a pull request operation, never create,
\* update_github_state, update_notion_status, update_notion_link or
\* update_github_branch
C14_TasksGetNoIssueOperations ==
    pc # "idle" =>
        \A task \in Tasks :
            \A k \in SourcedAt(task) :
                /\ operations[k].action \notin IssueActions
                /\ operations[k].action \in PullActions

\* planned: a task with an operation of its own and an issue titled with
\* its id
C14_Witness ==
    /\ pc # "idle"
    /\ \E task \in Tasks :
          /\ MapHas(Maps.issueMap, task.id)
          /\ SourcedAt(task) # {}

\* the bugs of itemById that pass the validation
ValidBugs ==
    {Maps.bugMap[i][2] : i \in {j \in 1..Len(Maps.bugMap) :
                                   /\ Maps.bugMap[j][2].itemType # "task"
                                   /\ validateBugForSync(Maps.bugMap[j][2])}}

\* C15: for every valid bug without an entry in issueById the plan holds
\* exactly one create whose source is the bug and whose target is null,
\* with or without an issueLink on the bug, and no update of state, status,
\* link or body for the bug
C15_MissingIssueIsCreated ==
    pc # "idle" =>
        \A bug \in ValidBugs :
            ~MapHas(Maps.issueMap, bug.id)
            => /\ Cardinality(SourcedAt(bug) \cap PlannedAt("create")) = 1
               /\ \A k \in SourcedAt(bug) \cap PlannedAt("create") :
                     operations[k].target = NullObj
               /\ \A k \in SourcedAt(bug) :
                     operations[k].action \notin (IssueActions \ {"create"})

\* planned: a valid bug that carries an issueLink and has no issue
C15_Witness ==
    /\ pc # "idle"
    /\ \E bug \in ValidBugs :
          /\ ~MapHas(Maps.issueMap, bug.id)
          /\ Truthy(bug.issueLink)
          /\ SourcedAt(bug) \cap PlannedAt("create") # {}

\* the plan holds a status operation, in either direction, for the bug
StatusPlanned(bug) ==
    \E k \in SourcedAt(bug) :
        operations[k].action \in {"update_github_state", "update_notion_status"}

\* C16: for every valid bug with a matched issue the plan holds
\* update_notion_link for the bug exactly when the bug's issueLink is empty
\* or differs from the url of the issue, with or without a status operation
\* for the bug
C16_LinkCheck ==
    pc # "idle" =>
        \A m \in MatchedBugs :
            /\ (SourcedAt(m[1]) \cap PlannedAt("update_notion_link") # {})
               <=> (m[1].issueLink = "" \/ m[1].issueLink # m[2].githubUrl)
            /\ \A k \in SourcedAt(m[1]) \cap PlannedAt("update_notion_link") :
                  operations[k].target = m[2]
            /\ Cardinality(SourcedAt(m[1]) \cap PlannedAt("update_notion_link")) <= 1

\* planned: a bug with a status operation whose issueLink is set and is not
\* the url of its issue
C16_Witness ==
    /\ pc # "idle"
    /\ \E m \in MatchedBugs :
          /\ StatusPlanned(m[1])
          /\ m[1].issueLink # "" /\ m[1].issueLink # m[2].githubUrl
          /\ SourcedAt(m[1]) \cap PlannedAt("update_notion_link") # {}

----------------------------------------------------------------------------
(* The claims about the choice of the pull request *)

\* the pull requests of the snapshot, all of one id, in the order fetched
FetchedPRs == fetched.githubPRs

\* the rank the pull request states have: open, then merged, then closed
Rank(pr) == CASE pr.state = "open" -> "a" [] pr.merged -> "b" [] OTHER -> "c"

RankBefore(p, q) == <<Rank(p), Rank(q)>> \in {<<"a", "b">>, <<"a", "c">>, <<"b", "c">>}

\* the orderings of a list
Orderings(seq) ==
    {[i \in 1..Len(seq) |-> seq[f[i]]] :
        f \in {g \in [1..Len(seq) -> 1..Len(seq)] :
                 \A i, j \in 1..Len(seq) : i # j => g[i] # g[j]}}

\* C17: of the pull requests of one id getMostRelevantPR returns an open one
\* if there is one, else a merged one if there is one, whatever the times of
\* their last update, and among those of the chosen rank one with the
\* latest updatedAt; of no pull request it returns null; the pull request
\* operations of the plan target the one returned
C17_PriorityBeforeRecency ==
    pc # "idle" =>
        LET chosen == getMostRelevantPR(FetchedPRs)
        IN /\ FetchedPRs = <<>> => chosen = NullObj
           /\ FetchedPRs # <<>> =>
                 /\ \E i \in 1..Len(FetchedPRs) : chosen = FetchedPRs[i]
                 /\ \A i \in 1..Len(FetchedPRs) :
                       /\ ~RankBefore(FetchedPRs[i], chosen)
                       /\ Rank(FetchedPRs[i]) = Rank(chosen)
                          => FetchedPRs[i].updatedAt <= chosen.updatedAt
           /\ \A k \in PlannedAt("update_notion_pr") \cup PlannedAt("update_notion_pr_link") :
                 operations[k].target = chosen

\* planned: an open pull request chosen over a closed one updated later and
\* listed first
C17_Witness ==
    /\ pc # "idle"
    /\ Len(FetchedPRs) >= 2
    /\ FetchedPRs[1].state = "closed" /\ ~FetchedPRs[1].merged
    /\ FetchedPRs[2].state = "open"
    /\ FetchedPRs[2].updatedAt < FetchedPRs[1].updatedAt
    /\ getMostRelevantPR(FetchedPRs) = FetchedPRs[2]
    /\ \E k \in PlannedAt("update_notion_pr") : operations[k].target = FetchedPRs[2]

\* C18: getMostRelevantPR returns the same pull request for every ordering
\* of the list, also when two pull requests have the same rank and the same
\* updatedAt
C18_ChoiceIgnoresInputOrder ==
    pc # "idle" =>
        \A other \in Orderings(FetchedPRs) :
            getMostRelevantPR(other) = getMostRelevantPR(FetchedPRs)

----------------------------------------------------------------------------
(* The claims about clearing the pull request properties *)

\* the items of itemById without a pull request in prsById
ItemsWithoutPR ==
    {Maps.bugMap[i][2] : i \in {j \in 1..Len(Maps.bugMap) :
                                   ~MapHas(Maps.prMap, Maps.bugMap[j][1])}}

\* the clearing rule for one item: clear_notion_pr exactly when the status of
\* the pull request is set and not "None" and the branch url is empty, and
\* no update of the status or link of the pull request
ClearingRule(item) ==
    /\ (SourcedAt(item) \cap PlannedAt("clear_notion_pr") # {})
       <=> /\ item.pullRequestStatus \notin {"", "None"}
           /\ item.branchUrl = ""
    /\ SourcedAt(item) \cap PlannedAt("update_notion_pr") = {}
    /\ SourcedAt(item) \cap PlannedAt("update_notion_pr_link") = {}

----------------------------------------------------------------------------
(* The claims about the status mapping *)

ClosingStatuses == {"Fixed", "Rejected"}

\* C20: mapNotionStatusToGitHubState returns closed for Fixed and Rejected
\* and open for every other status, the empty and the unrecognized ones
\* included; so no update_github_state of the plan closes the issue of an
\* item whose status is neither Fixed nor Rejected
C20_FailOpenStatusMapping ==
    pc # "idle" =>
        /\ \A i \in 1..Len(fetched.allItems) :
              mapNotionStatusToGitHubState(fetched.allItems[i].status)
                = IF fetched.allItems[i].status \in ClosingStatuses
                  THEN "closed" ELSE "open"
        /\ \A k \in PlannedAt("update_github_state") :
              operations[k].source.status \notin ClosingStatuses
              => updateGitHubIssueState(operations[k].source, operations[k].target,
                                        "start", TRUE).arg.state # "closed"

\* the table of the statuses that an issue state asks for
StatusTable(state, current) ==
    CASE state = "closed" /\ current \in ClosingStatuses -> current
      [] state = "closed" -> "Fixed"
      [] state = "open" /\ current \in ClosingStatuses -> "Reported"
      [] OTHER -> current

\* C21: mapGitHubStateToNotionStatus follows the table (closed: the current
\* status if it is Fixed or Rejected, else Fixed; open: Reported if the
\* current status is Fixed or Rejected, else the current status), and
\* applied to its own result with the same state it returns that result
C21_StatusMappingIsIdempotent ==
    pc # "idle" =>
        \A m \in MatchedBugs :
            LET mapped == mapGitHubStateToNotionStatus(m[2].state, m[1].status)
            IN /\ mapped = StatusTable(m[2].state, m[1].status)
               /\ mapGitHubStateToNotionStatus(m[2].state, mapped) = mapped

\* planned: a Rejected bug whose issue is closed, which keeps its status
C21_Witness ==
    /\ pc # "idle"
    /\ \E m \in MatchedBugs :
          /\ m[1].status = "Rejected" /\ m[2].state = "closed"
          /\ mapGitHubStateToNotionStatus(m[2].state, m[1].status) = "Rejected"

----------------------------------------------------------------------------
(* The claims about failures *)

\* the creates of the plan for an item whose module has no repository
UnmappedCreates ==
    {k \in PlannedAt("create") : operations[k].source.module \notin DOMAIN ModuleMapping}

\* C23: a create for an item whose module has no repository mapping makes
\* no call to either store, is recorded as one failed operation, and the
\* operations after it are still attempted
C23_UnknownModuleFailsCreateOnly ==
    \A j \in UnmappedCreates :
        /\ \A t \in 1..Len(trace) : trace[t].op # j
        /\ \A c \in calls : c.op # j
        /\ attempts[j] = 1 =>
              /\ Len(results.operations) >= j
              /\ ~results.operations[j].success
              /\ results.failed >= 1
        /\ pc = "done" => \A k \in 1..Len(operations) : attempts[k] = 1

\* a pass has ended in which a create failed for its module and a later
\* operation made its calls
C23_Witness ==
    /\ pc = "done"
    /\ \E j \in UnmappedCreates :
          \E k \in 1..Len(operations) :
              /\ k > j
              /\ \E t \in 1..Len(trace) : trace[t].op = k
              /\ results.operations[k].success

\* C22: a pass of which a fetch failed, of the items or of the issues or
\* pull requests of a repository, ends in error: it plans nothing and makes
\* no call that writes to a store
C22_FetchFailureIsFatal ==
    outage # {} =>
        /\ pc \in {"idle", "error"}
        /\ operations = <<>>
        /\ calls = {}
        /\ trace = <<>>

----------------------------------------------------------------------------
(* The claims about the ids in titles *)

\* the strings of one or more uppercase letters, a hyphen and digits
WellFormedIds == CbugIds \cup TskIds \cup OtherIds

\* C24: extractBugIdFromTitle returns the id of every title "<ID>: <rest>"
\* and "[<tag>]/<ID> <rest>" whose <ID> is uppercase letters, a hyphen and
\* digits, whatever the prefix, and null for every other title, the form
\* "<ID>-<rest>" included; issueById has exactly the ids so returned
C24_ExtractsEveryWellFormedId ==
    pc # "idle" =>
        /\ \A i \in 1..Len(fetched.githubIssues) :
              LET title == fetched.githubIssues[i].title
              IN extractBugIdFromTitle(title)
                   = IF /\ title.form \in {"colon", "bracket"}
                        /\ title.id \in WellFormedIds
                        /\ title.rest # ""
                     THEN title.id ELSE Null
        /\ \A id \in WellFormedIds :
              MapHas(Maps.issueMap, id)
              <=> \E i \in 1..Len(fetched.githubIssues) :
                     /\ fetched.githubIssues[i].title.form \in {"colon", "bracket"}
                     /\ fetched.githubIssues[i].title.id = id
                     /\ fetched.githubIssues[i].title.rest # ""

----------------------------------------------------------------------------
(* The claims about the webhook *)

----------------------------------------------------------------------------
(* The claim about the dry run *)

\* C26: on the same state of both stores the operations dryRun reports are
\* the operations performFullSync plans: same actions, sources and targets,
\* in the same order
C26_DryRunShowsTheRealPlan ==
    (dry.ran /\ pc = "exec") => dry.operations = operations

----------------------------------------------------------------------------
(* The claim about the branch link in the body of an issue *)

\* the lines under the first Development heading, in its paragraph
SectionOf(body) ==
    LET dev == FirstLine(body, DevelopmentHeading.text, "")
    IN IF dev = <<0, 0>> THEN <<>>
       ELSE SubSeq(body[dev[1]], dev[2] + 1, Len(body[dev[1]]))

HasBranchLineUnderHeading(body, url) ==
    \E p \in 1..Len(body) : \E l, k \in 1..Len(body[p]) :
        l < k /\ body[p][l] = DevelopmentHeading /\ body[p][k] = BranchLine(url)

PatchRule(old, url, new) ==
    LET dev == FirstLine(old, DevelopmentHeading.text, "")
        foot == FirstLine(old, FooterRule.text, FooterText.text)
        section == <<DevelopmentHeading, BranchLine(url)>>
    IN /\ (dev # <<0, 0>> /\ BodyIncludesUrl(<<SectionOf(old)>>, url)) => new = old
       /\ (dev # <<0, 0>> /\ ~BodyIncludesUrl(old, url)) =>
             BodyIncludesUrl(new, url) /\ HasBranchLineUnderHeading(new, url)
       /\ (dev = <<0, 0>> /\ foot # <<0, 0>>) =>
             /\ BodyIncludesUrl(new, url)
             /\ \E p \in 1..(Len(new) - 1) :
                   /\ Len(new[p]) >= 2
                   /\ SubSeq(new[p], Len(new[p]) - 1, Len(new[p])) = section
                   /\ SubSeq(new[p + 1], 1, 2) = <<FooterRule, FooterText>>
       /\ (dev = <<0, 0>> /\ foot = <<0, 0>>) =>
             /\ BodyIncludesUrl(new, url)
             /\ new[Len(new)] = section
             /\ SubSeq(new, 1, Len(old)) = old

\* C27: the body that update_github_branch sends for a fetched bug with a
\* branch and a fetched issue: unchanged when the Development section has the url; with a
\* Branch line in the section when the section lacks it; without a section,
\* a new section before the footer, or at the end when there is no footer;
\* in the last three cases the new body contains the url
C27_TextPatchRule ==
    \A i \in 1..Len(fetched.allItems) : \A j \in 1..Len(fetched.githubIssues) :
        LET bug == fetched.allItems[i]
            issue == fetched.githubIssues[j]
        IN Truthy(bug.branchUrl) =>
             PatchRule(issue.body, bug.branchUrl,
                       updateGitHubIssueBranchLink(bug, issue, "start", TRUE).arg.body)

----------------------------------------------------------------------------
(* The claims about scheduled passes *)

\* the issues of the Tracker titled with the id
IssuesOf(id) == {j \in 1..Len(github) : github[j].title.id = id}

\* C28: whatever the order and the interleaving of the passes, the Tracker
\* holds at most one issue for each id of a work item
C28_NoDuplicateIssues ==
    \A i \in 1..Len(notion) : Cardinality(IssuesOf(notion[i].id)) <= 1

\* C29: the pass of a tick does not run while the pass of the tick before
\* is still executing
C29_OnePassAtATime ==
    ~(pc = "exec" /\ later.pc = "exec")

----------------------------------------------------------------------------
(* The claim about the round trip of a created issue *)

\* the creates that the next pass would plan for the id
NextCreates(id) ==
    LET ops == plan(fetchAll(notion, github, pulls))
    IN {k \in 1..Len(ops) : ops[k].action = "create" /\ ops[k].source.id = id}

\* C30: once the create of a valid bug has made its issue, the id read from
\* the title of the issue is the id of the bug, and the next pass plans no
\* create for the bug
C30_CreatedIssueRoundTrip ==
    \A i \in 1..Len(notion) :
        (notion[i].itemType = "bug" /\ validateBugForSync(notion[i])) =>
            \A j \in IssuesOf(notion[i].id) :
                /\ extractBugIdFromTitle(github[j].title) = notion[i].id
                /\ NextCreates(notion[i].id) = {}

----------------------------------------------------------------------------
(* The claims about the agreement of the statuses *)

StatusActions == {"update_github_state", "update_notion_status"}

\* the reasons of the branch that compares the timestamps
ConflictReasons ==
    {"updated more recently, requires GitHub state",
     "updated more recently, requires Notion status"}

\* C31: for every matched bug the issue needs an update (its state is not
\* the state mapped from the status) exactly when the bug needs one (its
\* status is not the status mapped from the state), so every planned status
\* operation comes from the branch that compares the timestamps
C31_DisagreementTestsAgree ==
    pc # "idle" =>
        /\ \A m \in MatchedBugs :
              (m[2].state # mapNotionStatusToGitHubState(m[1].status))
              <=> (m[1].status # mapGitHubStateToNotionStatus(m[2].state, m[1].status))
        /\ \A k \in 1..Len(operations) :
              operations[k].action \in StatusActions
              => operations[k].reason[3] \in ConflictReasons

\* the plan of the pass that would follow on the stores as they are
NextPlan == plan(fetchAll(notion, github, pulls))

\* the operation at k of the plan has been recorded as a success
Succeeded(k) ==
    \E r \in 1..Len(results.operations) :
        /\ results.operations[r].operation = operations[k]
        /\ results.operations[r].success

\* C32: after a pass, for every valid bug that has an issue and whose status
\* operation, if the pass had one, succeeded: the state mapped from the
\* status of the bug is the state of the issue, and the following pass plans
\* neither update_github_state nor update_notion_status for the bug
C32_StatusAgreementAfterPass ==
    pc = "done" =>
        \A i \in 1..Len(notion) : \A j \in IssuesOf(notion[i].id) :
            (/\ notion[i].itemType = "bug"
             /\ validateBugForSync(notion[i])
             /\ extractBugIdFromTitle(github[j].title) = notion[i].id
             /\ \A k \in 1..Len(operations) :
                   (operations[k].action \in StatusActions
                    /\ operations[k].source.id = notion[i].id) => Succeeded(k))
            => /\ mapNotionStatusToGitHubState(notion[i].status) = github[j].state
               /\ \A k \in 1..Len(NextPlan) :
                     NextPlan[k].source.id = notion[i].id
                     => NextPlan[k].action \notin StatusActions

----------------------------------------------------------------------------
(* The claims about what an operation leaves behind *)

\* C33: no call of an operation that is recorded as failed has taken effect
\* on the Ledger or on the Tracker
C33_FailedOperationWroteNothing ==
    \A r \in 1..Len(results.operations) :
        ~results.operations[r].success =>
            \A t \in 1..Len(trace) :
                operations[trace[t].op] = results.operations[r].operation
                => ~trace[t].ok

\* C34: once a clear_notion_pr operation has succeeded, the page of its bug
\* or task has the pull request status None and no pull request link
C34_ClearLeavesNoPullRequest ==
    \A k \in PlannedAt("clear_notion_pr") :
        Succeeded(k) =>
            /\ notion[operations[k].source.notionId].pullRequestStatus = "None"
            /\ notion[operations[k].source.notionId].pullRequestLink = ""

\* the next pass plans update_notion_link for the item `id`, and the call of
\* that operation writes the url of the issue of the item to its page
LinkRepairedNext(id) ==
    \E n \in 1..Len(NextPlan) :
        /\ NextPlan[n].action = "update_notion_link"
        /\ NextPlan[n].source.id = id
        /\ LET c == updateNotionBugLink(NextPlan[n].source, NextPlan[n].target,
                                        "start", TRUE)
           IN /\ c.kind = "call"
              /\ \A j \in IssuesOf(id) :
                    updateBugIssueLink(notion, c.arg.pageId, c.arg.url, clock)
                        [NextPlan[n].source.notionId].issueLink = github[j].html_url

\* C35: when createIssue returned and the write of the link to the page
\* threw, the create is recorded as a success and counted in created, and
\* the next pass plans update_notion_link for the item, which writes the url
\* of the issue to the page
C35_CreateWithFailedLinkWrite ==
    pc = "done" =>
        \A k \in PlannedAt("create") :
            (Settled(k, "createIssue", TRUE) /\ Settled(k, "updateBugIssueLink", FALSE))
            => /\ Succeeded(k)
               /\ results.created = 1
               /\ LinkRepairedNext(operations[k].source.id)

----------------------------------------------------------------------------
(* The claims about the branch of a webhook *)

\* a webhook has made the branch of some item
BranchMade == \E i \in 1..Len(notion) : HookBranchUrl(notion[i].id) \in branches

\* the page of every item whose branch has been made holds its url
BranchRecorded ==
    \A i \in 1..Len(notion) :
        HookBranchUrl(notion[i].id) \in branches
        => notion[i].branchUrl = HookBranchUrl(notion[i].id)

\* C36: once a webhook has made the branch of an item, the page of the item
\* holds the url of the branch in the end, whatever fails, with webhooks
\* sent again and sync passes running
C36_BranchLinkEventuallyRecorded == BranchMade ~> BranchRecorded

\* the pass fetched the valid bug at i with the url of its branch, made by a
\* webhook, on its page, and fetched no issue of the bug
BranchBeforeIssue(i) ==
    /\ fetched.allItems[i].itemType = "bug"
    /\ validateBugForSync(fetched.allItems[i])
    /\ HookBranchUrl(fetched.allItems[i].id) \in branches
    /\ fetched.allItems[i].branchUrl = HookBranchUrl(fetched.allItems[i].id)
    /\ \A j \in 1..Len(fetched.githubIssues) :
          fetched.githubIssues[j].title.id # fetched.allItems[i].id

\* C37: when a webhook has made the branch of a valid bug and recorded its
\* url on the page while the bug had no issue, then after the next pass,
\* all of whose operations succeeded, the bug has an issue whose body
\* contains the url of the branch
C37_BranchLinkReachesTheIssue ==
    (pc = "done" /\ AllCallsReturned /\ results.failed = 0) =>
        \A i \in 1..Len(fetched.allItems) :
            BranchBeforeIssue(i) =>
                \E j \in IssuesOf(fetched.allItems[i].id) :
                    BodyIncludesUrl(github[j].body, fetched.allItems[i].branchUrl)

\* a pass after the webhook has created the issue of the bug
C37_Witness ==
    /\ pc = "done" /\ AllCallsReturned /\ results.failed = 0
    /\ \E i \in 1..Len(fetched.allItems) :
          /\ BranchBeforeIssue(i)
          /\ Settled(1, "createIssue", TRUE)
          /\ IssuesOf(fetched.allItems[i].id) # {}

\* the error that the checks give in their order: title and id, then the
\* page id, then the repository of the module
FirstFailure(payload) ==
    CASE ~Truthy(payload.title) \/ ~Truthy(payload.id) ->
            {"INVALID_WEBHOOK", "MISSING_REQUIRED_FIELDS"}
      [] payload.pageId = 0 -> {"MISSING_PAGE_ID"}
      [] payload.module \notin DOMAIN ModuleMapping -> {"UNKNOWN_MODULE"}
      [] OTHER -> {}

Refusals ==
    {"INVALID_WEBHOOK", "MISSING_REQUIRED_FIELDS", "MISSING_PAGE_ID", "UNKNOWN_MODULE",
     "BRANCH_EXISTS"}

\* a webhook that ends with one of the refusals has written nothing
RefusedWithoutWrite ==
    (hook.pc = "done" /\ hook.error \in Refusals) =>
        /\ hook.writes = <<>>
        /\ hook.calls = {}
        /\ hook.error = "BRANCH_EXISTS" => hook.url \in branches

\* a webhook fails a check exactly when it ends with the error of the first
\* check it fails
RefusedInOrder ==
    hook.pc # "idle" =>
        IF FirstFailure(hook.payload) = {}
        THEN hook.error \notin Refusals \ {"BRANCH_EXISTS"}
        ELSE hook.pc = "done" /\ hook.error \in FirstFailure(hook.payload)

\* the step that ends a webhook with a refusal leaves the Ledger, the
\* Tracker and the branches as they are
RefusalStep ==
    (hook' # hook /\ hook'.pc = "done" /\ hook'.error \in Refusals)
    => UNCHANGED <<notion, github, comments, branches>>

----------------------------------------------------------------------------
(* The claim about the scheduler after a failed pass *)

\* C39: a pass that ends in error does not stop the scheduler: after it the
\* next tick starts a pass, be the failed pass the first one or the pass of
\* a later tick
C39_SchedulerSurvivesFailedPasses ==
    /\ (pc = "error") ~> (later.pc # "idle")
    /\ \A b \in {0, 1} :
          (later.pc = "error" /\ later.tick = b) ~> (later.tick # b)

\* the first pass ended in error, and so did the pass of a tick, and the
\* pass of the tick after it is executing
C39_Witness ==
    pc = "error" /\ later.pc = "exec" /\ later.tick = 0

====
